---- MODULE Spec2Model ----
(***************************************************************************)
(* Model of the data-acquisition layer of nba-terminal (src/src/api.py):   *)
(* the ApiClient fetch operations, their memory caches (cachetools         *)
(* TTLCache), the JSON disk cache, the soft rate limiter and the tenacity  *)
(* retry policy.                                                           *)
(*                                                                         *)
(* Time is counted in ticks of 0.1 s, so that RATE_LIMIT_MIN_INTERVAL      *)
(* (0.6 s) is the integer 6; every duration of constants.py is written in  *)
(* ticks (CACHE_TTL_GAMES = 90 s = 900 ticks, ...).                        *)
(*                                                                         *)
(* Python values are records tagged by "ty", so that a tuple and the JSON  *)
(* list it is dumped to are different values.                              *)
(***************************************************************************)
EXTENDS Integers, Sequences, FiniteSets, TLC

VARIABLES
    now,                \* time.time(), in ticks
    mem,                \* the four TTLCache objects: key -> entry
    disk,               \* <CONFIG_DIR>/cache/<key>.json: key -> file state
    config_file,        \* <CONFIG_DIR>/config.json: its state and content
    fsMode,             \* state of CONFIG_DIR and its cache directory ("ok", "nodir", "readonly")
    network,            \* "up", or "down": every remote attempt raises
    budget,             \* the calls and pauses a behaviour is followed for
    last_error,         \* ApiClient._last_error
    last_request_time,  \* ApiClient._last_request_time
    last_from_cache,    \* _last_games/standings/leaders_from_cache
    ret,                \* what the last public call did and returned
    ncalls,             \* number of public calls made so far
    npauses,            \* number of pauses between calls so far
    allFailed,          \* no remote request has succeeded since construction
    called,             \* the operations that have returned so far
    lastLive,           \* key -> time and value of the last successful live fetch
    reqAt,              \* times of the remote requests the last public call sent
    lastReq,            \* time of the last remote request sent before that call
    startup,            \* main() before the dashboard loop: its position and threads
    arg,                \* a helper function called on its own: what it is given
    res,                \* a helper function called on its own: what it gives back
    pc,                 \* concurrent _rate_limit callers: position of each thread
    wake,               \* concurrent _rate_limit callers: end of the thread's sleep
    rlReturns,          \* return times of the concurrent _rate_limit calls
    frame               \* the fetches running on the pool's threads: thread -> frame

vars == <<now, mem, disk, config_file, fsMode, network, budget, last_error,
          last_request_time, last_from_cache, ret, ncalls, npauses, allFailed,
          called, lastLive, reqAt, lastReq, startup, arg, res, pc, wake,
          rlReturns, frame>>

clientVars == <<mem, disk, config_file, fsMode, network, budget, last_error, last_from_cache,
                ret, ncalls, npauses, allFailed, called, lastLive, reqAt, lastReq,
                startup, arg, res, frame>>

threadVars == <<pc, wake, rlReturns>>

\* the state of the client and of its threads, which a helper function called
\* on its own leaves alone
programVars == <<now, mem, disk, config_file, fsMode, network, budget, last_error,
                 last_request_time, last_from_cache, ret, ncalls, npauses,
                 allFailed, called, lastLive, reqAt, lastReq, startup,
                 pc, wake, rlReturns, frame>>

-----------------------------------------------------------------------------
(* Program constants, in ticks of 0.1 s *)

CACHE_TTL_STANDINGS == 36000
CACHE_TTL_GAMES == 900
CACHE_TTL_LEAGUE_LEADERS == 36000
CACHE_TTL_BOX_SCORE == 3000
RATE_LIMIT_MIN_INTERVAL == 6

\* constants.CACHE_TTL_OFFLINE is read by api.py but constants.py does not
\* define it; the design document only calls it "a materially larger window".
\* It is taken to be 24 h.
CACHE_TTL_OFFLINE == 864000

\* main.py reads constants.INITIAL_LOAD_TIMEOUT and constants.CACHE_READ_TIMEOUT,
\* which constants.py does not define either. They are taken to be 8 s and 2 s
\* and, like the timeout of the join in main's waiting loop (0.08 s), are
\* written in hundredths of a second.
INITIAL_LOAD_TIMEOUT == 800
CACHE_READ_TIMEOUT == 200
JoinTimeout == 8

\* @retry(stop=stop_after_attempt(3), wait=wait_exponential(multiplier=1, min=1, max=10))
StopAfterAttempt == 3
WaitMultiplier == 10
WaitMin == 10
WaitMax == 100

-----------------------------------------------------------------------------
(* Bounds of the model *)

\* time.time() when the client is constructed (any value beyond every TTL)
StartTime == 1000000
\* public calls and pauses between calls per behaviour
MaxCalls == 2
MaxPauses == 1
\* public calls per behaviour while the remote is down, and on a machine that
\* holds the cache files of an earlier run
MaxDownCalls == 3
MaxWarmCalls == 3
\* get_box_score calls per behaviour
MaxBoxCalls == 3
\* stores into the memory caches and pauses between them per behaviour
MaxCacheSets == 2
MaxCachePauses == 2
\* games of a scoreboard given to categorize_games
MaxGameList == 3
\* calls of save_config and load_config
MaxConfigCalls == 2
\* fetches the dashboard loop makes one after the other
MaxSoloCalls == 2
\* games on the dashboard
MaxGames == 21
\* pieces of text an exception message is made of
MaxFragments == 2
\* entries of a team's period list
MaxPeriods == 2
\* head-to-head calls per behaviour
MaxH2HCalls == 1
\* threads that call _rate_limit concurrently, and clock ticks they are watched for
NThreads == 3
MaxTicks == 7

-----------------------------------------------------------------------------
(* Python values *)

PyNone == [ty |-> "None"]

\* a 2-tuple (a, b) and the JSON list [a, b]
Tuple(a, b) == [ty |-> "tuple", a |-> a, b |-> b]
List2(a, b) == [ty |-> "list", a |-> a, b |-> b]

\* the dict {"east": [...], "west": [...]} fetch_standings writes to disk
StandingsDict(e, w) == [ty |-> "standings", east |-> e, west |-> w]

\* the league-leaders dict; elt tells whether the rows are tuples or lists
LeadersDict(p, r, a, t, elt) ==
    [ty |-> "leaders", PTS |-> p, REB |-> r, AST |-> a, TDBL |-> t, elt |-> elt]

Dates == {"d1", "d2"}
\* datetime.now().date().isoformat(): the day the behaviour starts on
Today == "d1"
GamesKey(d) == "games:" \o d
Keys == {GamesKey(d) : d \in Dates} \cup {"standings", "league_leaders"}

\* game ids and the keys of their box scores, which are cached in memory only
GameIds == {"g1", "g2"}
BoxKey(game_id) == "box:" \o game_id
BoxKeys == {BoxKey(g) : g \in GameIds}
MemKeys == Keys \cup BoxKeys

\* the cache (resource kind) a key belongs to
CacheOf(key) ==
    IF key \in BoxKeys THEN "box"
    ELSE IF key = "standings" THEN "standings"
    ELSE IF key = "league_leaders" THEN "leaders"
    ELSE "games"

\* json.dump of a value: a tuple is written as a list
JsonDump(v) == IF v.ty = "tuple" THEN List2(v.a, v.b) ELSE v

\* DataFrame.to_dict(orient="records") guarded by "is not None and not empty"
ToRecords(df) == IF df \in {"None", "empty"} THEN <<>> ELSE <<df>>

\* pd.DataFrame(records) if records else None; an empty frame becomes None
FromRecords(recs) == IF recs = <<>> THEN "None" ELSE recs[1]


-----------------------------------------------------------------------------
(* Inputs: what the remote endpoints answer *)

GamesPayloads == {<<>>, <<"g1">>}
Frames == {"empty", "rowsA"}

\* exceptions: the type name and str(exc), a sequence of characters
Exc(type, msg) == [type |-> type, msg |-> msg]
NoExc == Exc("", <<>>)
ReadTimeout ==
    Exc("ReadTimeout", <<"R","e","a","d"," ","t","i","m","e","d"," ","o","u","t">>)
KeyErr == Exc("KeyError", <<"'","r","e","s","u","l","t","S","e","t","s","'">>)
RemoteErrors == {ReadTimeout, KeyErr}

\* the outcome of a call: a value, or an exception raised
Ok(v) == [raised |-> FALSE, exc |-> NoExc, val |-> v]
Raise(e) == [raised |-> TRUE, exc |-> e, val |-> PyNone]

\* fails: attempts that raise before one succeeds (StopAfterAttempt: all of them)
RemoteOk(f, v) == [fails |-> f, val |-> v, err |-> NoExc, live |-> FALSE]
RemoteFail(e) == [fails |-> StopAfterAttempt, val |-> PyNone, err |-> e, live |-> FALSE]
\* the same answer given by the live scoreboard endpoint, which fetch_games
\* asks first for today's games
RemoteLive(v) == [fails |-> 0, val |-> v, err |-> NoExc, live |-> TRUE]

\* a successful call succeeds at once or on the last attempt
RetriedFails == {0, StopAfterAttempt - 1}

RemoteGames(d) ==
    {RemoteOk(f, Tuple(g, d)) : f \in RetriedFails, g \in GamesPayloads}
    \cup {RemoteFail(e) : e \in RemoteErrors}
    \cup (IF d = Today THEN {RemoteLive(Tuple(<<"g1">>, d))} ELSE {})


RemoteStandings ==
    {RemoteOk(f, Tuple("None", "None")) : f \in {0}}
    \cup {RemoteOk(f, Tuple(e, w)) : f \in RetriedFails,
                                      e \in {"rowsA"}, w \in Frames}
    \cup {RemoteFail(e) : e \in RemoteErrors}

\* fetch_league_leaders makes four remote calls (PTS, REB, AST, TDBL); each one
\* answers rows or raises on every attempt
LeaderRows == <<"p1">>
RemoteLeaders ==
    {[PTS |-> p, REB |-> r, AST |-> r, TDBL |-> r] :
        p \in {"ok", "fail"}, r \in {"ok", "fail"}}

-----------------------------------------------------------------------------
(* Strings: sequences of characters *)

Upper == <<"A","B","C","D","E","F","G","H","I","J","K","L","M",
           "N","O","P","Q","R","S","T","U","V","W","X","Y","Z">>
LowerOf == <<"a","b","c","d","e","f","g","h","i","j","k","l","m",
             "n","o","p","q","r","s","t","u","v","w","x","y","z">>

LowerChar(c) ==
    IF \E i \in 1..26 : Upper[i] = c
    THEN LowerOf[CHOOSE i \in 1..26 : Upper[i] = c]
    ELSE c

\* the printable ASCII characters, from code point 32 on (the backslash and
\* the grave accent are written by name)
Ascii ==
    <<" ", "!", "\"", "#", "$", "%", "&", "'", "(", ")", "*", "+", ",", "-", ".", "/",
      "0", "1", "2", "3", "4", "5", "6", "7", "8", "9", ":", ";", "<", "=", ">", "?",
      "@", "A", "B", "C", "D", "E", "F", "G", "H", "I", "J", "K", "L", "M", "N", "O",
      "P", "Q", "R", "S", "T", "U", "V", "W", "X", "Y", "Z", "[", "backslash", "]", "^", "_",
      "grave", "a", "b", "c", "d", "e", "f", "g", "h", "i", "j", "k", "l", "m", "n", "o",
      "p", "q", "r", "s", "t", "u", "v", "w", "x", "y", "z", "{", "|", "}", "~">>

\* ord(c) and chr(n)
ord(c) == 31 + (CHOOSE i \in 1..Len(Ascii) : Ascii[i] = c)
chr(n) == Ascii[n - 31]

DigitChars == <<"0","1","2","3","4","5","6","7","8","9">>

\* str(n) as characters, for n >= 0
RECURSIVE Decimal(_)
Decimal(n) ==
    IF n < 10 THEN <<DigitChars[n + 1]>>
    ELSE Decimal(n \div 10) \o <<DigitChars[(n % 10) + 1]>>

\* int(s) for a text of digits
RECURSIVE ParseInt(_)
ParseInt(digits) ==
    IF digits = <<>> THEN 0
    ELSE 10 * ParseInt(SubSeq(digits, 1, Len(digits) - 1))
         + ((CHOOSE i \in 1..10 : DigitChars[i] = digits[Len(digits)]) - 1)

\* str.lower()
Lower(s) == [i \in 1..Len(s) |-> LowerChar(s[i])]

\* sub in s
Contains(s, sub) ==
    \E i \in 0..(Len(s) - Len(sub)) : \A j \in 1..Len(sub) : s[i + j] = sub[j]

\* s.strip()
RECURSIVE Strip(_)
Strip(s) ==
    IF s = <<>> THEN s
    ELSE IF s[1] = " " THEN Strip(Tail(s))
    ELSE IF s[Len(s)] = " " THEN Strip(SubSeq(s, 1, Len(s) - 1))
    ELSE s

\* a slice that keeps the whole of s
Prefix_all(s, n) == s

\* s[:n]
Prefix(s, n) == IF Len(s) <= n THEN s ELSE SubSeq(s, 1, n)

kw_timeout == <<"t","i","m","e","o","u","t">>
kw_timed_out == <<"t","i","m","e","d"," ","o","u","t">>
kw_connection == <<"c","o","n","n","e","c","t","i","o","n">>
kw_network == <<"n","e","t","w","o","r","k">>
kw_unreachable == <<"u","n","r","e","a","c","h","a","b","l","e">>
kw_rate == <<"r","a","t","e">>
kw_429 == <<"4","2","9">>
kw_too_many == <<"t","o","o"," ","m","a","n","y">>
kw_404 == <<"4","0","4">>
kw_not_found == <<"n","o","t"," ","f","o","u","n","d">>

\* a str: a fixed text followed by a sequence of characters
Str(text, body) == [ty |-> "str", text |-> text, body |-> body]

\* type(exc).__name__ as characters
TypeNameChars(type) ==
    CASE type = "ReadTimeout" -> <<"R","e","a","d","T","i","m","e","o","u","t">>
      [] type = "KeyError" -> <<"K","e","y","E","r","r","o","r">>
      [] type = "PermissionError" -> <<"P","e","r","m","i","s","s","i","o","n","E","r","r","o","r">>
      [] type = "AttributeError" -> <<"A","t","t","r","i","b","u","t","e","E","r","r","o","r">>
      [] type = "TypeError" -> <<"T","y","p","e","E","r","r","o","r">>
      [] type = "TimeoutError" -> <<"T","i","m","e","o","u","t","E","r","r","o","r">>
      [] type = "ConnectionError" -> <<"C","o","n","n","e","c","t","i","o","n","E","r","r","o","r">>
      [] type = "ValueError" -> <<"V","a","l","u","e","E","r","r","o","r">>

\* str(exc).strip() or type(exc).__name__
MessageOf(exc) ==
    IF Strip(exc.msg) # <<>> THEN Strip(exc.msg) ELSE TypeNameChars(exc.type)

\* _user_facing_error without its last return: a short message of no category
\* gives None
_user_facing_error_no_return(exc, default_prefix) ==
    LET msg == MessageOf(exc)
        err_lower == Lower(msg)
    IN  IF Contains(err_lower, kw_timeout) \/ Contains(err_lower, kw_timed_out)
        THEN Str("Connection timeout. Try again later.", <<>>)
        ELSE IF \/ Contains(err_lower, kw_connection)
                \/ Contains(err_lower, kw_network)
                \/ Contains(err_lower, kw_unreachable)
        THEN Str("No connection. Check your network.", <<>>)
        ELSE IF \/ Contains(err_lower, kw_rate)
                \/ Contains(msg, kw_429)
                \/ Contains(err_lower, kw_too_many)
        THEN Str("Too many requests. Wait a moment and retry.", <<>>)
        ELSE IF Contains(msg, kw_404) \/ Contains(err_lower, kw_not_found)
        THEN Str("Data not found.", <<>>)
        ELSE IF Len(msg) > 60
        THEN Str(default_prefix \o ": ", Prefix(msg, 57) \o <<".", ".", ".">>)
        ELSE PyNone

\* _user_facing_error that looks for the connectivity keywords first
_user_facing_error_connection_first(exc, default_prefix) ==
    LET msg == MessageOf(exc)
        err_lower == Lower(msg)
    IN  IF \/ Contains(err_lower, kw_connection)
           \/ Contains(err_lower, kw_network)
           \/ Contains(err_lower, kw_unreachable)
        THEN Str("No connection. Check your network.", <<>>)
        ELSE IF Contains(err_lower, kw_timeout) \/ Contains(err_lower, kw_timed_out)
        THEN Str("Connection timeout. Try again later.", <<>>)
        ELSE IF \/ Contains(err_lower, kw_rate)
                \/ Contains(msg, kw_429)
                \/ Contains(err_lower, kw_too_many)
        THEN Str("Too many requests. Wait a moment and retry.", <<>>)
        ELSE IF Contains(msg, kw_404) \/ Contains(err_lower, kw_not_found)
        THEN Str("Data not found.", <<>>)
        ELSE IF Len(msg) > 60
        THEN Str(default_prefix \o ": ", Prefix(msg, 57) \o <<".", ".", ".">>)
        ELSE Str(default_prefix \o ": ", msg)

_user_facing_error(exc, default_prefix) ==
    LET msg == MessageOf(exc)
        err_lower == Lower(msg)
    IN  IF Contains(err_lower, kw_timeout) \/ Contains(err_lower, kw_timed_out)
        THEN Str("Connection timeout. Try again later.", <<>>)
        ELSE IF \/ Contains(err_lower, kw_connection)
                \/ Contains(err_lower, kw_network)
                \/ Contains(err_lower, kw_unreachable)
        THEN Str("No connection. Check your network.", <<>>)
        ELSE IF \/ Contains(err_lower, kw_rate)
                \/ Contains(msg, kw_429)
                \/ Contains(err_lower, kw_too_many)
        THEN Str("Too many requests. Wait a moment and retry.", <<>>)
        ELSE IF Contains(msg, kw_404) \/ Contains(err_lower, kw_not_found)
        THEN Str("Data not found.", <<>>)
        ELSE IF Len(msg) > 60
        THEN Str(default_prefix \o ": ", Prefix(msg, 57) \o <<".", ".", ".">>)
        ELSE Str(default_prefix \o ": ", msg)

\* the OSError os.makedirs raises when the cache directory cannot be created
MakedirsError ==
    Exc("PermissionError", <<"[","E","r","r","n","o"," ","1","3","]"," ",
                             "d","e","n","i","e","d">>)
\* 'list' object has no attribute 'get'
ListHasNoGet ==
    Exc("AttributeError", <<"n","o"," ","a","t","t","r","i","b","u","t","e"," ",
                            "'","g","e","t","'">>)

\* unsupported operand type(s) for -: 'float' and 'str'
FloatMinusStr ==
    Exc("TypeError", <<"u","n","s","u","p","p","o","r","t","e","d"," ",
                       "o","p","e","r","a","n","d">>)

-----------------------------------------------------------------------------
(* Disk cache *)

\* the states of <key>.json: no file; a file that cannot be opened; a file
\* that is not JSON; JSON that is a list; an object whose "ts" is a string;
\* an object with no "ts"; a record {"ts": ts, "data": data}
Missing == [st |-> "missing"]
Unreadable == [st |-> "unreadable"]
Undecodable == [st |-> "undecodable"]
JsonList == [st |-> "jsonlist"]
BadTs(data) == [st |-> "badts", data |-> data]
NoTs(data) == [st |-> "nots", data |-> data]
Record(ts, data) == [st |-> "obj", ts |-> ts, data |-> data]

\* os.makedirs(d, exist_ok=True): raises when the directory cannot be created
_disk_cache_dir == IF fsMode = "nodir" THEN Raise(MakedirsError) ELSE Ok(PyNone)

\* _disk_cache_get that still answers at an age equal to the TTL
_disk_cache_get_inclusive(key, ttl, t) ==
    IF _disk_cache_dir.raised THEN _disk_cache_dir
    ELSE LET f == disk[key]
         IN  CASE f.st = "missing" -> Ok(PyNone)
               [] f.st = "undecodable" -> Ok(PyNone)
               [] f.st = "unreadable" -> Ok(PyNone)
               [] f.st = "jsonlist" -> Raise(ListHasNoGet)
               [] f.st = "badts" -> Raise(FloatMinusStr)
               [] f.st = "nots" -> IF t - 0 > ttl THEN Ok(PyNone) ELSE Ok(f.data)
               [] f.st = "obj" -> IF t - f.ts > ttl THEN Ok(PyNone) ELSE Ok(f.data)

_disk_cache_get(key, ttl, t) ==
    IF _disk_cache_dir.raised THEN _disk_cache_dir
    ELSE LET f == disk[key]
         IN  CASE f.st = "missing" -> Ok(PyNone)
               [] f.st = "undecodable" -> Ok(PyNone)
               [] f.st = "unreadable" -> Ok(PyNone)
               [] f.st = "jsonlist" -> Raise(ListHasNoGet)
               [] f.st = "badts" -> Raise(FloatMinusStr)
               [] f.st = "nots" -> IF t - 0 >= ttl THEN Ok(PyNone) ELSE Ok(f.data)
               [] f.st = "obj" -> IF t - f.ts >= ttl THEN Ok(PyNone) ELSE Ok(f.data)

\* _disk_cache_get_offline with the age test the wrong way round
_disk_cache_get_offline_flipped(key, max_age_seconds, t) ==
    IF _disk_cache_dir.raised THEN _disk_cache_dir
    ELSE LET f == disk[key]
         IN  CASE f.st = "missing" -> Ok(PyNone)
               [] f.st = "undecodable" -> Ok(PyNone)
               [] f.st = "unreadable" -> Ok(PyNone)
               [] f.st = "jsonlist" -> Raise(ListHasNoGet)
               [] f.st = "badts" -> Raise(FloatMinusStr)
               [] f.st = "nots" -> IF t - 0 < max_age_seconds
                                   THEN Ok(PyNone) ELSE Ok(f.data)
               [] f.st = "obj" -> IF t - f.ts < max_age_seconds
                                  THEN Ok(PyNone) ELSE Ok(f.data)

\* _disk_cache_get_offline that ignores the window it is given and applies the
\* games TTL
_disk_cache_get_offline_short(key, max_age_seconds, t) ==
    IF _disk_cache_dir.raised THEN _disk_cache_dir
    ELSE LET f == disk[key]
         IN  CASE f.st = "missing" -> Ok(PyNone)
               [] f.st = "undecodable" -> Ok(PyNone)
               [] f.st = "unreadable" -> Ok(PyNone)
               [] f.st = "jsonlist" -> Raise(ListHasNoGet)
               [] f.st = "badts" -> Raise(FloatMinusStr)
               [] f.st = "nots" -> IF t - 0 > CACHE_TTL_GAMES
                                   THEN Ok(PyNone) ELSE Ok(f.data)
               [] f.st = "obj" -> IF t - f.ts > CACHE_TTL_GAMES
                                  THEN Ok(PyNone) ELSE Ok(f.data)

_disk_cache_get_offline(key, max_age_seconds, t) ==
    IF _disk_cache_dir.raised THEN _disk_cache_dir
    ELSE LET f == disk[key]
         IN  CASE f.st = "missing" -> Ok(PyNone)
               [] f.st = "undecodable" -> Ok(PyNone)
               [] f.st = "unreadable" -> Ok(PyNone)
               [] f.st = "jsonlist" -> Raise(ListHasNoGet)
               [] f.st = "badts" -> Raise(FloatMinusStr)
               [] f.st = "nots" -> IF t - 0 > max_age_seconds
                                   THEN Ok(PyNone) ELSE Ok(f.data)
               [] f.st = "obj" -> IF t - f.ts > max_age_seconds
                                  THEN Ok(PyNone) ELSE Ok(f.data)

\* _disk_cache_set that keeps the first record of a key
_disk_cache_set_once(key, value, t) ==
    IF _disk_cache_dir.raised
    THEN [raised |-> TRUE, exc |-> _disk_cache_dir.exc, disk |-> disk]
    ELSE IF fsMode = "readonly" \/ disk[key].st # "missing"
    THEN [raised |-> FALSE, exc |-> NoExc, disk |-> disk]
    ELSE [raised |-> FALSE, exc |-> NoExc,
          disk |-> [disk EXCEPT ![key] = Record(t, JsonDump(value))]]

\* the result is the exception raised (if any) and the files afterwards
_disk_cache_set(key, value, t) ==
    IF _disk_cache_dir.raised
    THEN [raised |-> TRUE, exc |-> _disk_cache_dir.exc, disk |-> disk]
    ELSE IF fsMode = "readonly"
    THEN [raised |-> FALSE, exc |-> NoExc, disk |-> disk]
    ELSE [raised |-> FALSE, exc |-> NoExc,
          disk |-> [disk EXCEPT ![key] = Record(t, JsonDump(value))]]


-----------------------------------------------------------------------------
(* Memory caches: cachetools.TTLCache(maxsize, ttl), one per resource kind *)

NoEntry == [has |-> FALSE]
Entry(val, exp) == [has |-> TRUE, val |-> val, exp |-> exp]

CacheTTL(cache) ==
    CASE cache = "games" -> CACHE_TTL_GAMES
      [] cache = "standings" -> CACHE_TTL_STANDINGS
      [] cache = "leaders" -> CACHE_TTL_LEAGUE_LEADERS
      [] cache = "box" -> CACHE_TTL_BOX_SCORE

\* an entry that is still live at the moment it expires
Live_late(e, t) == e.has /\ t <= e.exp

\* an entry is live while timer() < expires
Live(e, t) == e.has /\ t < e.exp

\* _cache_get that looks the key up in the wrong cache: always a KeyError
_cache_get_miss(cache, key, t) == PyNone

\* cache[key], None on KeyError
_cache_get(cache, key, t) == IF Live(mem[key], t) THEN mem[key].val ELSE PyNone

\* cache[key] = value: the expired entries of that cache are removed, the entry
\* expires ttl after the store
_cache_set(cache, key, value, t) ==
    [k \in DOMAIN mem |->
        IF k = key THEN Entry(value, t + CacheTTL(cache))
        ELSE IF CacheOf(k) = cache /\ mem[k].has /\ ~Live(mem[k], t) THEN NoEntry
        ELSE mem[k]]

-----------------------------------------------------------------------------
(* Rate limiter and retry policy *)

\* _rate_limit called at time t by the only thread: the time.sleep it does
RateLimitDelay(t) ==
    LET elapsed == t - last_request_time
    IN  IF elapsed < RATE_LIMIT_MIN_INTERVAL
        THEN RATE_LIMIT_MIN_INTERVAL - elapsed
        ELSE 0

\* the time at which _rate_limit returns, which it stores in _last_request_time
_rate_limit(t) == t + RateLimitDelay(t)

Min(a, b) == IF a < b THEN a ELSE b
Max(a, b) == IF a > b THEN a ELSE b

RECURSIVE Pow2(_)
Pow2(n) == IF n <= 0 THEN 1 ELSE 2 * Pow2(n - 1)

\* wait_exponential whose exponent is the number of the failed attempt
RetryWait_doubled(n) == Max(WaitMin, Min(WaitMax, WaitMultiplier * Pow2(n)))

\* wait_exponential(multiplier=1, min=1, max=10) after failed attempt n
RetryWait(n) == Max(WaitMin, Min(WaitMax, WaitMultiplier * Pow2(n - 1)))

RECURSIVE SumWaits(_)
SumWaits(n) == IF n <= 0 THEN 0 ELSE SumWaits(n - 1) + RetryWait(n)

\* what the attempts of a thunk do when the remote behaves as rem says
Outcomes(rem) ==
    [i \in 1..StopAfterAttempt |->
        IF i <= rem.fails THEN Raise(rem.err) ELSE Ok(rem.val)]

\* the retry loop that gives up with the exception of its first attempt
RECURSIVE Retrying_first(_, _, _)
Retrying_first(outs, i, t) ==
    IF ~outs[i].raised
    THEN [raised |-> FALSE, exc |-> NoExc, val |-> outs[i].val,
          attempts |-> i, t |-> t]
    ELSE IF i >= StopAfterAttempt
    THEN [raised |-> TRUE, exc |-> outs[1].exc, val |-> PyNone,
          attempts |-> i, t |-> t]
    ELSE Retrying_first(outs, i + 1, t + RetryWait(i))

\* tenacity's loop from attempt i on, at time t: the thunk's value is returned,
\* its exception is reraised when attempt StopAfterAttempt has failed, and
\* otherwise the next attempt follows the wait
RECURSIVE Retrying(_, _, _)
Retrying(outs, i, t) ==
    IF ~outs[i].raised
    THEN [raised |-> FALSE, exc |-> NoExc, val |-> outs[i].val,
          attempts |-> i, t |-> t]
    ELSE IF i >= StopAfterAttempt
    THEN [raised |-> TRUE, exc |-> outs[i].exc, val |-> PyNone,
          attempts |-> i, t |-> t]
    ELSE Retrying(outs, i + 1, t + RetryWait(i))

\* _with_retry(thunk) started at time t, the thunk behaving as rem says:
\* the attempts made, the time of the last one and its outcome
_with_retry(rem, t) == Retrying(Outcomes(rem), 1, t)


RECURSIVE Repeat(_, _)
Repeat(x, n) == IF n <= 0 THEN <<>> ELSE <<x>> \o Repeat(x, n - 1)

\* the times of the requests _with_retry(thunk) sends from time t on when the
\* thunk is attempted n times and attempt i sends per[i] requests
RECURSIVE RequestTimes(_, _, _)
RequestTimes(n, t, per) ==
    IF n <= 0 THEN <<>>
    ELSE RequestTimes(n - 1, t, per) \o Repeat(t + SumWaits(n - 1), per[n])

\* one request per attempt
OneEach == [i \in 1..StopAfterAttempt |-> 1]

-----------------------------------------------------------------------------
(* The public fetch operations.  Each one is a function of the state and of  *)
(* the remote's behaviour; its value is the state when the call returns.     *)

\* what a call did: origin is where the returned value came from ("memory",
\* "disk", "live", "offline", "empty"), or "raised" when an exception escaped;
\* rl counts its _rate_limit calls, reqs its remote attempts; remote tells
\* whether its remote calls were made and whether any of them succeeded
Returned(op, key, origin, val, rl, reqs, remote, t) ==
    [id |-> ncalls + 1, op |-> op, key |-> key, origin |-> origin, val |-> val,
     raised |-> FALSE, exc |-> NoExc, rl |-> rl, reqs |-> reqs,
     remote |-> remote, t0 |-> now, t1 |-> t]

Escaped(op, key, exc, rl, reqs, remote, t) ==
    [id |-> ncalls + 1, op |-> op, key |-> key, origin |-> "raised", val |-> PyNone,
     raised |-> TRUE, exc |-> exc, rl |-> rl, reqs |-> reqs,
     remote |-> remote, t0 |-> now, t1 |-> t]

\* the state when nothing has been changed yet
Unchanged(r) ==
    [mem |-> mem, disk |-> disk, last_error |-> last_error,
     last_from_cache |-> last_from_cache,
     last_request_time |-> last_request_time, now |-> r.t1, ret |-> r,
     reqAt |-> <<>>]

\* self._last_<kind>_from_cache = value
MarkFromCache(kind, value) == [last_from_cache EXCEPT ![kind] = value]

RemoteStatus(r) == IF r.raised THEN "failed" ELSE "ok"

fetch_games(game_date, rem) ==
    LET date_str == game_date
        cache_key == GamesKey(date_str)
        cached == _cache_get("games", cache_key, now)
        t1 == _rate_limit(now)
        r == _with_retry(rem, t1)
        w == _disk_cache_set(cache_key, r.val, r.t)
        \* the exception caught by "except Exception as e"
        e == IF r.raised THEN r.exc ELSE w.exc
        offline == _disk_cache_get_offline(cache_key, CACHE_TTL_OFFLINE, r.t)
        \* _do asks the live scoreboard first when the date is today, then
        \* ScoreboardV3 when that raised or the date is another day
        sent == RequestTimes(r.attempts, t1,
                    [i \in 1..StopAfterAttempt |->
                        IF date_str # Today THEN 1
                        ELSE IF i = r.attempts /\ rem.live THEN 1
                        ELSE 2])
        failed(from_cache, rv) ==
            [mem |-> IF r.raised THEN mem
                     ELSE _cache_set("games", cache_key, r.val, r.t),
             disk |-> disk,
             last_error |-> _user_facing_error(e, "Games"),
             last_from_cache |-> MarkFromCache("games", from_cache),
             last_request_time |-> t1,
             now |-> r.t,
             ret |-> rv,
             reqAt |-> sent]
    IN  IF cached # PyNone
        THEN Unchanged(Returned("fetch_games", cache_key, "memory", cached,
                                0, 0, "none", now))
        ELSE IF ~r.raised /\ ~w.raised
        THEN [mem |-> _cache_set("games", cache_key, r.val, r.t),
              disk |-> w.disk,
              last_error |-> PyNone,
              last_from_cache |-> MarkFromCache("games", FALSE),
              last_request_time |-> t1,
              now |-> r.t,
              ret |-> Returned("fetch_games", cache_key, "live", r.val,
                               1, r.attempts, "ok", r.t),
              reqAt |-> sent]
        ELSE IF offline.raised
        THEN failed(FALSE, Escaped("fetch_games", cache_key, offline.exc,
                                   1, r.attempts, RemoteStatus(r), r.t))
        ELSE IF offline.val # PyNone /\ offline.val.ty \in {"list", "tuple"}
        THEN failed(TRUE, Returned("fetch_games", cache_key, "offline",
                                   Tuple(offline.val.a, offline.val.b),
                                   1, r.attempts, RemoteStatus(r), r.t))
        ELSE failed(FALSE, Returned("fetch_games", cache_key, "empty",
                                    Tuple(<<>>, date_str),
                                    1, r.attempts, RemoteStatus(r), r.t))

\* east/west frames rebuilt from the dict on disk: (east, west)
HydrateStandings(d) == Tuple(FromRecords(d.east), FromRecords(d.west))

fetch_standings(rem) ==
    LET dsk == _disk_cache_get("standings", CACHE_TTL_STANDINGS, now)
        cached == _cache_get("standings", "standings", now)
        t1 == _rate_limit(now)
        r == _with_retry(rem, t1)
        w == _disk_cache_set("standings",
                             StandingsDict(ToRecords(r.val.a), ToRecords(r.val.b)),
                             r.t)
        e == IF r.raised THEN r.exc ELSE w.exc
        offline == _disk_cache_get_offline("standings", CACHE_TTL_OFFLINE, r.t)
        failed(from_cache, rv) ==
            [mem |-> IF r.raised THEN mem
                     ELSE _cache_set("standings", "standings", r.val, r.t),
             disk |-> disk,
             last_error |-> _user_facing_error(e, "Standings"),
             last_from_cache |-> MarkFromCache("standings", from_cache),
             last_request_time |-> t1,
             now |-> r.t,
             ret |-> rv,
             reqAt |-> RequestTimes(r.attempts, t1, OneEach)]
    IN  IF dsk.raised
        THEN Unchanged(Escaped("fetch_standings", "standings", dsk.exc,
                               0, 0, "none", now))
        ELSE IF dsk.val # PyNone /\ dsk.val.ty = "standings"
        THEN Unchanged(Returned("fetch_standings", "standings", "disk",
                                HydrateStandings(dsk.val), 0, 0, "none", now))
        ELSE IF cached # PyNone
        THEN Unchanged(Returned("fetch_standings", "standings", "memory", cached,
                                0, 0, "none", now))
        ELSE IF ~r.raised /\ ~w.raised
        THEN [mem |-> _cache_set("standings", "standings", r.val, r.t),
              disk |-> w.disk,
              last_error |-> PyNone,
              last_from_cache |-> MarkFromCache("standings", FALSE),
              last_request_time |-> t1,
              now |-> r.t,
              ret |-> Returned("fetch_standings", "standings", "live", r.val,
                               1, r.attempts, "ok", r.t),
              reqAt |-> RequestTimes(r.attempts, t1, OneEach)]
        ELSE IF offline.raised
        THEN failed(FALSE, Escaped("fetch_standings", "standings", offline.exc,
                                   1, r.attempts, RemoteStatus(r), r.t))
        ELSE IF /\ offline.val # PyNone
                /\ offline.val.ty = "standings"
                /\ HydrateStandings(offline.val) # Tuple("None", "None")
        THEN failed(TRUE, Returned("fetch_standings", "standings", "offline",
                                   HydrateStandings(offline.val),
                                   1, r.attempts, RemoteStatus(r), r.t))
        ELSE failed(FALSE, Returned("fetch_standings", "standings", "empty",
                                    Tuple("None", "None"),
                                    1, r.attempts, RemoteStatus(r), r.t))


\* the dict read from disk with its rows turned into tuples
HydrateLeaders(d) == [d EXCEPT !.elt = "tuple"]

EmptyLeaders == LeadersDict(<<>>, <<>>, <<>>, <<>>, "tuple")

\* one category of fetch_league_leaders: _with_retry(_do), the exception swallowed
LeaderCall(outcome, t) ==
    _with_retry(IF outcome = "ok" THEN RemoteOk(0, LeaderRows)
                ELSE RemoteFail(ReadTimeout), t)

fetch_league_leaders(rem) ==
    LET dsk == _disk_cache_get("league_leaders", CACHE_TTL_LEAGUE_LEADERS, now)
        cached == _cache_get("leaders", "league_leaders", now)
        t1 == _rate_limit(now)
        pts == LeaderCall(rem.PTS, t1)
        reb == LeaderCall(rem.REB, pts.t)
        ast == LeaderCall(rem.AST, reb.t)
        \* _fetch_triple_double_leaders: one request, [] when it raises
        tdbl == IF rem.TDBL = "ok" THEN LeaderRows ELSE <<>>
        rows(c) == IF c.raised THEN <<>> ELSE c.val
        result == LeadersDict(rows(pts), rows(reb), rows(ast), tdbl, "tuple")
        reqs == pts.attempts + reb.attempts + ast.attempts + 1
        sent == RequestTimes(pts.attempts, t1, OneEach)
                \o RequestTimes(reb.attempts, pts.t, OneEach)
                \o RequestTimes(ast.attempts, reb.t, OneEach)
                \o <<ast.t>>
        anyOk == ~pts.raised \/ ~reb.raised \/ ~ast.raised \/ rem.TDBL = "ok"
        remote == IF anyOk THEN "ok" ELSE "failed"
        w == _disk_cache_set("league_leaders", [result EXCEPT !.elt = "list"], ast.t)
        offline == _disk_cache_get_offline("league_leaders", CACHE_TTL_OFFLINE, ast.t)
        failed(from_cache, rv) ==
            [mem |-> _cache_set("leaders", "league_leaders", result, ast.t),
             disk |-> disk,
             last_error |-> last_error,
             last_from_cache |-> MarkFromCache("leaders", from_cache),
             last_request_time |-> t1,
             now |-> ast.t,
             ret |-> rv,
             reqAt |-> sent]
    IN  IF dsk.raised
        THEN Unchanged(Escaped("fetch_league_leaders", "league_leaders", dsk.exc,
                               0, 0, "none", now))
        ELSE IF dsk.val # PyNone /\ dsk.val.ty = "leaders"
        THEN Unchanged(Returned("fetch_league_leaders", "league_leaders", "disk",
                                HydrateLeaders(dsk.val), 0, 0, "none", now))
        ELSE IF cached # PyNone
        THEN Unchanged(Returned("fetch_league_leaders", "league_leaders", "memory",
                                cached, 0, 0, "none", now))
        ELSE IF ~w.raised
        THEN [mem |-> _cache_set("leaders", "league_leaders", result, ast.t),
              disk |-> w.disk,
              last_error |-> last_error,
              last_from_cache |-> MarkFromCache("leaders", FALSE),
              last_request_time |-> t1,
              now |-> ast.t,
              ret |-> Returned("fetch_league_leaders", "league_leaders", "live",
                               result, 1, reqs, remote, ast.t),
              reqAt |-> sent]
        ELSE IF offline.raised
        THEN failed(FALSE, Escaped("fetch_league_leaders", "league_leaders",
                                   offline.exc, 1, reqs, remote, ast.t))
        ELSE IF offline.val # PyNone /\ offline.val.ty \in {"leaders", "standings"}
        THEN failed(TRUE, Returned("fetch_league_leaders", "league_leaders",
                                   "offline", HydrateLeaders(offline.val),
                                   1, reqs, remote, ast.t))
        ELSE failed(FALSE, Returned("fetch_league_leaders", "league_leaders",
                                    "empty", EmptyLeaders, 1, reqs, remote, ast.t))

\* the 5-tuple (games, scoreboard_date, east, west, league_leaders)
InitialData(games, date, east, west, leaders) ==
    [ty |-> "initial", games |-> games, date |-> date, east |-> east,
     west |-> west, leaders |-> leaders]

get_initial_data_from_cache_only(game_date_iso) ==
    LET cache_key == GamesKey(game_date_iso)
        offline_games == _disk_cache_get_offline(cache_key, CACHE_TTL_OFFLINE, now)
        disk_standings == _disk_cache_get_offline("standings", CACHE_TTL_OFFLINE, now)
        disk_leaders == _disk_cache_get_offline("league_leaders", CACHE_TTL_OFFLINE, now)
        useGames == offline_games.val # PyNone /\ offline_games.val.ty \in {"list", "tuple"}
        games == IF useGames THEN offline_games.val.a ELSE <<>>
        scoreboard_date == IF useGames THEN offline_games.val.b ELSE game_date_iso
        useStandings == disk_standings.val # PyNone /\ disk_standings.val.ty = "standings"
        east == IF useStandings THEN FromRecords(disk_standings.val.east) ELSE "None"
        west == IF useStandings THEN FromRecords(disk_standings.val.west) ELSE "None"
        league_leaders ==
            IF disk_leaders.val # PyNone /\ disk_leaders.val.ty = "leaders"
            THEN HydrateLeaders(disk_leaders.val)
            ELSE EmptyLeaders
        raised == IF offline_games.raised THEN offline_games
                  ELSE IF disk_standings.raised THEN disk_standings
                  ELSE disk_leaders
    IN  IF raised.raised
        THEN Unchanged(Escaped("get_initial_data_from_cache_only", cache_key,
                               raised.exc, 0, 0, "none", now))
        ELSE Unchanged(Returned("get_initial_data_from_cache_only", cache_key,
                                "offline",
                                InitialData(games, scoreboard_date, east, west,
                                            league_leaders),
                                0, 0, "none", now))

\* what the box-score endpoint answers: the game's dict, or an exception
BoxDict(body) == [ty |-> "dict", body |-> body]
BoxPayloads == {BoxDict("boxA"), BoxDict("boxB")}
RemoteBox == {Ok(b) : b \in BoxPayloads} \cup {Raise(e) : e \in RemoteErrors}

\* get_box_score that stores the None of a failed request in the cache
get_box_score_caching_failure(game_id, rem) ==
    LET cache_key == BoxKey(game_id)
        cached == _cache_get("box", cache_key, now)
    IN  IF game_id = ""
        THEN Unchanged(Returned("get_box_score", "", "none", PyNone,
                                0, 0, "none", now))
        ELSE IF cached # PyNone
        THEN Unchanged(Returned("get_box_score", cache_key, "memory", cached,
                                0, 0, "none", now))
        ELSE [mem |-> _cache_set("box", cache_key,
                                 IF rem.raised THEN PyNone ELSE rem.val, now),
              disk |-> disk,
              last_error |-> last_error,
              last_from_cache |-> last_from_cache,
              last_request_time |-> last_request_time,
              now |-> now,
              ret |-> IF rem.raised
                      THEN Returned("get_box_score", cache_key, "empty", PyNone,
                                    0, 1, "failed", now)
                      ELSE Returned("get_box_score", cache_key, "live", rem.val,
                                    0, 1, "ok", now),
              reqAt |-> <<now>>]

\* game_id "" stands for None and for the empty string ("if not game_id")
get_box_score(game_id, rem) ==
    LET cache_key == BoxKey(game_id)
        cached == _cache_get("box", cache_key, now)
    IN  IF game_id = ""
        THEN Unchanged(Returned("get_box_score", "", "none", PyNone,
                                0, 0, "none", now))
        ELSE IF cached # PyNone
        THEN Unchanged(Returned("get_box_score", cache_key, "memory", cached,
                                0, 0, "none", now))
        ELSE [mem |-> IF rem.raised THEN mem
                      ELSE _cache_set("box", cache_key, rem.val, now),
              disk |-> disk,
              last_error |-> last_error,
              last_from_cache |-> last_from_cache,
              last_request_time |-> last_request_time,
              now |-> now,
              ret |-> IF rem.raised
                      THEN Returned("get_box_score", cache_key, "empty", PyNone,
                                    0, 1, "failed", now)
                      ELSE Returned("get_box_score", cache_key, "live", rem.val,
                                    0, 1, "ok", now),
              reqAt |-> <<now>>]

-----------------------------------------------------------------------------
(* The single-threaded client: one action per public call *)

Threads == 1..NThreads

NoLive == [has |-> FALSE]

Budget(calls, pauses) == [calls |-> calls, pauses |-> pauses]

\* a thread of the pool that runs no fetch
IdleFrame == [op |-> "none", stage |-> "idle"]
NoJobs == [th \in Threads |-> IdleFrame]

\* the state after ApiClient() on a machine whose cache files are `files`,
\* with `input` as what the operations called on their own are given
InitState(files, config, mode, net, bud, input) ==
    /\ now = StartTime
    /\ mem = [k \in MemKeys |-> NoEntry]
    /\ disk = files
    /\ config_file = config
    /\ fsMode = mode
    /\ network = net
    /\ budget = bud
    /\ last_error = PyNone
    /\ last_request_time = 0
    /\ last_from_cache = [games |-> FALSE, standings |-> FALSE, leaders |-> FALSE]
    /\ ret = [id |-> 0, op |-> "none", key |-> "", origin |-> "none", val |-> PyNone,
              raised |-> FALSE, exc |-> NoExc, rl |-> 0, reqs |-> 0,
              remote |-> "none", t0 |-> StartTime, t1 |-> StartTime]
    /\ ncalls = 0
    /\ npauses = 0
    /\ allFailed = TRUE
    /\ called = {}
    /\ lastLive = [k \in MemKeys |-> NoLive]
    /\ reqAt = <<>>
    /\ lastReq = 0
    /\ startup = [pc |-> "off", waited |-> 0, joined |-> 0, load |-> "off",
                  cache |-> "off", cache_holder |-> PyNone, data |-> "none"]
    /\ arg = input
    /\ res = [op |-> "none"]
    /\ pc = [th \in Threads |-> "idle"]
    /\ wake = [th \in Threads |-> 0]
    /\ rlReturns = <<>>

\* the client alone: the configuration file has not been written yet
InitArgs(files, mode, net, bud, input) ==
    /\ InitState(files, Missing, mode, net, bud, input)
    /\ frame = NoJobs

InitWith(files, mode, net, bud) ==
    InitArgs(files, mode, net, bud, [op |-> "none"])

\* a first start: the cache directory is empty and writable
NoFiles == [k \in Keys |-> Missing]

Init == InitWith(NoFiles, "ok", "up", Budget(MaxCalls, MaxPauses))

\* the call returns in state post
Call(post) ==
    /\ now' = post.now
    /\ mem' = post.mem
    /\ disk' = post.disk
    /\ last_error' = post.last_error
    /\ last_request_time' = post.last_request_time
    /\ last_from_cache' = post.last_from_cache
    /\ ret' = post.ret
    /\ ncalls' = ncalls + 1
    /\ npauses' = npauses
    /\ allFailed' = (allFailed /\ post.ret.remote # "ok")
    /\ called' = called \cup {post.ret.op}
    /\ lastLive' = IF post.ret.origin = "live"
                   THEN [lastLive EXCEPT ![post.ret.key] =
                            [has |-> TRUE, t |-> post.ret.t1, val |-> post.ret.val]]
                   ELSE lastLive
    /\ reqAt' = post.reqAt
    /\ lastReq' = IF reqAt = <<>> THEN lastReq ELSE reqAt[Len(reqAt)]
    /\ UNCHANGED <<config_file, fsMode, network, budget, startup, arg, res, pc, wake,
                   rlReturns, frame>>

\* the answers the remote can give while the network is in its present state
Reachable(rems) ==
    IF network = "down" THEN {r \in rems : r.fails = StopAfterAttempt} ELSE rems

FetchGames ==
    /\ ncalls < budget.calls
    /\ \E d \in Dates : \E rem \in Reachable(RemoteGames(d)) :
          Call(fetch_games(d, rem))

FetchStandings ==
    /\ ncalls < budget.calls
    /\ \E rem \in Reachable(RemoteStandings) : Call(fetch_standings(rem))

FetchLeagueLeaders ==
    /\ ncalls < budget.calls
    /\ \E rem \in RemoteLeaders :
          /\ network = "down" =>
                rem = [PTS |-> "fail", REB |-> "fail", AST |-> "fail", TDBL |-> "fail"]
          /\ Call(fetch_league_leaders(rem))

\* time that passes between two calls
Pauses == {1, CACHE_TTL_GAMES, CACHE_TTL_STANDINGS, CACHE_TTL_OFFLINE}

Sleep(d) ==
    /\ now' = now + d
    /\ npauses' = npauses + 1
    /\ UNCHANGED <<mem, disk, config_file, fsMode, network, budget, last_error,
                   last_request_time, last_from_cache, ret, ncalls, allFailed,
                   called, lastLive, reqAt, lastReq, startup, arg, res, pc, wake,
                   rlReturns, frame>>

Pause ==
    /\ npauses < budget.pauses
    /\ ncalls < budget.calls
    /\ \E d \in Pauses : Sleep(d)

Next == FetchGames \/ FetchStandings \/ FetchLeagueLeaders \/ Pause

Spec == Init /\ [][Next]_vars


-----------------------------------------------------------------------------
(* The same client on a machine whose cache directory is in any state: one   *)
(* cache file is not JSON or holds a JSON list, or the directory cannot be   *)
(* created, or its files cannot be opened for writing                        *)

DamagedFiles ==
    {[x \in Keys |-> IF x = k THEN f ELSE Missing] :
        k \in Keys, f \in {Missing, Undecodable, JsonList}}

InitFS ==
    \/ \E files \in DamagedFiles :
          InitWith(files, "ok", "up", Budget(MaxCalls, MaxPauses))
    \/ InitWith(NoFiles, "nodir", "up", Budget(MaxCalls, MaxPauses))
    \/ InitWith(NoFiles, "readonly", "up", Budget(MaxCalls, MaxPauses))

SpecFS == InitFS /\ [][Next]_vars

-----------------------------------------------------------------------------
(* The same client while the remote is down: every remote attempt raises *)

InitDown == InitWith(NoFiles, "ok", "down", Budget(MaxDownCalls, MaxPauses))

SpecDown == InitDown /\ [][Next]_vars

-----------------------------------------------------------------------------
(* The same client started on a machine that holds the cache files an        *)
(* earlier run of the program wrote `age` ago                                *)

WarmFiles(age) ==
    [k \in Keys |->
        IF k = "standings"
        THEN Record(StartTime - age, StandingsDict(<<"rowsA">>, <<"rowsA">>))
        ELSE IF k = "league_leaders"
        THEN Record(StartTime - age,
                    LeadersDict(LeaderRows, LeaderRows, LeaderRows, LeaderRows, "list"))
        ELSE Record(StartTime - age,
                    List2(<<"g1">>, CHOOSE d \in Dates : GamesKey(d) = k))]

InitWarm ==
    \E age \in {CACHE_TTL_GAMES, CACHE_TTL_STANDINGS} :
        InitWith(WarmFiles(age), "ok", "up", Budget(MaxWarmCalls, MaxPauses))

SpecWarm == InitWarm /\ [][Next]_vars

-----------------------------------------------------------------------------
(* Cold start: the cache-only read on a machine that holds the records of    *)
(* earlier runs. A record holds what a fetch wrote: rows, or the empty lists *)
(* of a day without games, of empty standings, of league leaders that could  *)
(* not be fetched.                                                           *)

ColdRecords(k, ts) ==
    IF k = "standings"
    THEN {Record(ts, StandingsDict(<<>>, <<>>)),
          Record(ts, StandingsDict(<<"rowsA">>, <<"rowsA">>))}
    ELSE IF k = "league_leaders"
    THEN {Record(ts, LeadersDict(<<>>, <<>>, <<>>, <<>>, "list")),
          Record(ts, LeadersDict(LeaderRows, LeaderRows, LeaderRows, LeaderRows, "list"))}
    ELSE {Record(ts, List2(g, CHOOSE d \in Dates : GamesKey(d) = k)) :
             g \in GamesPayloads}

ColdAges == {CACHE_TTL_STANDINGS, CACHE_TTL_OFFLINE, CACHE_TTL_OFFLINE + 1}

InitCold ==
    \E age \in ColdAges :
        \E files \in [Keys -> {Missing} \cup UNION {ColdRecords(k, StartTime - age) : k \in Keys}] :
            /\ \A k \in Keys :
                  files[k] \in {Missing} \cup ColdRecords(k, StartTime - age)
            /\ files[GamesKey("d2")] = Missing
            /\ InitWith(files, "ok", "up", Budget(MaxCalls, MaxPauses))

GetInitialDataFromCacheOnly ==
    /\ ncalls < budget.calls
    /\ \E d \in Dates : Call(get_initial_data_from_cache_only(d))

NextCold == GetInitialDataFromCacheOnly \/ Pause

SpecCold == InitCold /\ [][NextCold]_vars

-----------------------------------------------------------------------------
(* Startup (main.py, lines 60-105): main starts the load thread, which runs  *)
(* the three fetches, and waits for it in a loop of timed joins; without a   *)
(* live result it starts the cache thread and joins it with a timeout. Each  *)
(* thread may finish at any moment or never. What the fetches of the load    *)
(* thread do to the client is left to the single-threaded specifications.    *)

\* the variables the startup steps leave alone
startupFrame == <<now, mem, disk, config_file, fsMode, network, budget, last_request_time,
                  ret, ncalls, npauses, allFailed, called, lastLive, reqAt,
                  lastReq, arg, res, pc, wake, rlReturns, frame>>

\* lines 76-78: load_thread.start(); waited = 0
MainStart ==
    /\ startup.pc = "off"
    /\ startup' = [startup EXCEPT !.pc = "wait", !.load = "running"]
    /\ UNCHANGED <<startupFrame, last_error, last_from_cache>>

\* lines 63-74: the three fetches have returned (result_holder is set) or an
\* exception ended load_initial_data
LoadFinish ==
    /\ startup.load = "running"
    /\ \E end \in {"result", "error"} : startup' = [startup EXCEPT !.load = end]
    /\ UNCHANGED <<startupFrame, last_error, last_from_cache>>

\* lines 79-84: one turn of the waiting loop
MainWait ==
    /\ startup.pc = "wait"
    /\ startup.load = "running"
    /\ startup.waited < INITIAL_LOAD_TIMEOUT
    /\ startup' = [startup EXCEPT !.waited = @ + JoinTimeout]
    /\ UNCHANGED <<startupFrame, last_error, last_from_cache>>

\* a waiting loop that ends only when the load thread does
MainLeaveLoop_no_deadline ==
    /\ startup.pc = "wait"
    /\ startup.load # "running"
    /\ IF startup.load = "result"
       THEN startup' = [startup EXCEPT !.pc = "dashboard", !.data = "live"]
       ELSE startup' = [startup EXCEPT !.pc = "cache", !.cache = "running"]
    /\ UNCHANGED <<startupFrame, last_error, last_from_cache>>

\* lines 79, 85-92: the loop is over; the live result is taken, or the cache
\* thread is started
MainLeaveLoop ==
    /\ startup.pc = "wait"
    /\ startup.load # "running" \/ startup.waited >= INITIAL_LOAD_TIMEOUT
    /\ IF startup.load = "result"
       THEN startup' = [startup EXCEPT !.pc = "dashboard", !.data = "live"]
       ELSE startup' = [startup EXCEPT !.pc = "cache", !.cache = "running"]
    /\ UNCHANGED <<startupFrame, last_error, last_from_cache>>

\* lines 89-90: read_cache has run get_initial_data_from_cache_only
CacheFinish ==
    /\ startup.cache = "running"
    /\ LET r == get_initial_data_from_cache_only(Today).ret
       IN  startup' = [startup EXCEPT !.cache = "done",
                                      !.cache_holder = IF r.raised THEN PyNone ELSE r.val]
    /\ UNCHANGED <<startupFrame, last_error, last_from_cache>>

\* lines 93-103: cache_thread.join(timeout) returns, at once when the thread
\* has finished and after CACHE_READ_TIMEOUT when it has not
MainCacheJoin ==
    /\ startup.pc = "cache"
    /\ LET h == startup.cache_holder
           games == IF h = PyNone THEN <<>> ELSE h.games
           east == IF h = PyNone THEN "None" ELSE h.east
           west == IF h = PyNone THEN "None" ELSE h.west
       IN  /\ startup' = [startup EXCEPT
                            !.pc = "dashboard",
                            !.joined = IF startup.cache = "done" THEN 0
                                       ELSE CACHE_READ_TIMEOUT,
                            !.data = IF h = PyNone THEN "neutral" ELSE "cache"]
           /\ last_from_cache' =
                 IF h = PyNone THEN last_from_cache
                 ELSE [games |-> games # <<>>,
                       standings |-> (east # "None" \/ west # "None"),
                       leaders |-> (\/ h.leaders.PTS # <<>>
                                    \/ h.leaders.REB # <<>>
                                    \/ h.leaders.AST # <<>>)]
           /\ last_error' =
                 IF games = <<>> /\ east = "None" /\ west = "None"
                 THEN Str("Connection timed out or unavailable. Press [R] to retry.", <<>>)
                 ELSE last_error
    /\ UNCHANGED startupFrame

InitStartup ==
    \E files \in {NoFiles, WarmFiles(CACHE_TTL_STANDINGS)} :
        InitWith(files, "ok", "up", Budget(0, 0))

MainStep == MainStart \/ MainWait \/ MainLeaveLoop \/ MainCacheJoin

NextStartup == MainStep \/ LoadFinish \/ CacheFinish

\* main is scheduled again and again; the two threads may hang for ever
SpecStartup == InitStartup /\ [][NextStartup]_vars /\ WF_vars(MainStep)

-----------------------------------------------------------------------------
(* The game screen: box scores asked for one after another *)

GetBoxScore ==
    /\ ncalls < budget.calls
    /\ \E g \in GameIds \cup {""} : \E rem \in RemoteBox :
          /\ network = "down" => rem.raised
          /\ Call(get_box_score(g, rem))

BoxPause ==
    /\ npauses < budget.pauses
    /\ ncalls < budget.calls
    /\ \E d \in {1, CACHE_TTL_BOX_SCORE - 1, CACHE_TTL_BOX_SCORE} : Sleep(d)

InitBox == InitWith(NoFiles, "ok", "up", Budget(MaxBoxCalls, MaxPauses))

NextBox == GetBoxScore \/ BoxPause

SpecBox == InitBox /\ [][NextBox]_vars

-----------------------------------------------------------------------------
(* _rate_limit called by several threads at once (the three fetches that     *)
(* load_initial_data and the manual refresh submit to a ThreadPoolExecutor). *)
(* The method takes no lock: a thread can be preempted between reading       *)
(* _last_request_time (line 186) and storing it (line 191).                  *)

\* _rate_limit sleeping one tick less than the missing interval
RlEnter_short(th) ==
    /\ pc[th] = "idle"
    /\ LET elapsed == now - last_request_time
       IN  IF elapsed < RATE_LIMIT_MIN_INTERVAL
           THEN /\ wake' = [wake EXCEPT ![th] = now + (RATE_LIMIT_MIN_INTERVAL - elapsed) - 1]
                /\ pc' = [pc EXCEPT ![th] = "sleeping"]
           ELSE /\ wake' = wake
                /\ pc' = [pc EXCEPT ![th] = "stamp"]
    /\ UNCHANGED <<now, last_request_time, rlReturns>>
    /\ UNCHANGED clientVars

\* line 186-188: elapsed = time.time() - self._last_request_time
RlEnter(th) ==
    /\ pc[th] = "idle"
    /\ LET elapsed == now - last_request_time
       IN  IF elapsed < RATE_LIMIT_MIN_INTERVAL
           THEN /\ wake' = [wake EXCEPT ![th] = now + (RATE_LIMIT_MIN_INTERVAL - elapsed)]
                /\ pc' = [pc EXCEPT ![th] = "sleeping"]
           ELSE /\ wake' = wake
                /\ pc' = [pc EXCEPT ![th] = "stamp"]
    /\ UNCHANGED <<now, last_request_time, rlReturns>>
    /\ UNCHANGED clientVars

\* line 190: time.sleep(delay) is over
RlWake(th) ==
    /\ pc[th] = "sleeping"
    /\ now >= wake[th]
    /\ pc' = [pc EXCEPT ![th] = "stamp"]
    /\ UNCHANGED <<now, last_request_time, wake, rlReturns>>
    /\ UNCHANGED clientVars

\* line 191: self._last_request_time = time.time(), and the call returns
RlStamp(th) ==
    /\ pc[th] = "stamp"
    /\ last_request_time' = now
    /\ rlReturns' = Append(rlReturns, now)
    /\ pc' = [pc EXCEPT ![th] = "done"]
    /\ UNCHANGED <<now, wake>>
    /\ UNCHANGED clientVars

Tick ==
    /\ now < StartTime + MaxTicks
    /\ now' = now + 1
    /\ UNCHANGED <<last_request_time, pc, wake, rlReturns>>
    /\ UNCHANGED clientVars

NextRL ==
    \/ \E th \in Threads : RlEnter(th)
    \/ \E th \in Threads : RlWake(th)
    \/ \E th \in Threads : RlStamp(th)
    \/ Tick

SpecRL == Init /\ [][NextRL]_vars

-----------------------------------------------------------------------------
(* _rate_limit called again and again by one thread: a call starts when the  *)
(* one before it has returned                                                *)

RlEnterNext(th) ==
    /\ \A u \in Threads : pc[u] \in {"idle", "done"}
    /\ RlEnter(th)

NextRLSeq ==
    \/ \E th \in Threads : RlEnterNext(th)
    \/ \E th \in Threads : RlWake(th)
    \/ \E th \in Threads : RlStamp(th)
    \/ Tick

SpecRLSeq == Init /\ [][NextRLSeq]_vars


-----------------------------------------------------------------------------
(* _with_retry called on its own with a thunk whose attempts each return a   *)
(* value or raise                                                            *)

AttemptOutcomes == {Ok("v1"), Ok("v2")} \cup {Raise(e) : e \in RemoteErrors}

WithRetry ==
    \E outs \in [1..StopAfterAttempt -> AttemptOutcomes] :
        \E t \in {now, now + 1} :
            /\ arg' = [op |-> "_with_retry", outs |-> outs, t |-> t]
            /\ res' = Retrying(outs, 1, t)
            /\ UNCHANGED programVars

SpecRetry == Init /\ [][WithRetry]_vars

-----------------------------------------------------------------------------
(* The two disk readers called on their own on a cache directory whose       *)
(* standings file is in any state: damaged, or a record whose age is just    *)
(* below, at, or just above one of the windows                               *)

Windows == {CACHE_TTL_GAMES, CACHE_TTL_STANDINGS, CACHE_TTL_OFFLINE}

StoredStandings == StandingsDict(<<"rowsA">>, <<>>)

FileStates ==
    {Missing, Unreadable, Undecodable, JsonList,
     BadTs(StoredStandings), NoTs(StoredStandings)}
    \cup {Record(StartTime - (w + d), StoredStandings) : w \in Windows, d \in {-1, 0, 1}}

InitDisk ==
    \E f \in FileStates :
        InitWith([k \in Keys |-> IF k = "standings" THEN f ELSE Missing],
                 "ok", "up", Budget(0, 0))

DiskCacheGet ==
    \E key \in Keys : \E ttl \in Windows :
        /\ arg' = [op |-> "_disk_cache_get", key |-> key, window |-> ttl]
        /\ res' = _disk_cache_get(key, ttl, now)
        /\ UNCHANGED programVars

DiskCacheGetOffline ==
    \E key \in Keys : \E max_age_seconds \in Windows :
        /\ arg' = [op |-> "_disk_cache_get_offline", key |-> key,
                   window |-> max_age_seconds]
        /\ res' = _disk_cache_get_offline(key, max_age_seconds, now)
        /\ UNCHANGED programVars

NextDisk == DiskCacheGet \/ DiskCacheGetOffline

SpecDisk == InitDisk /\ [][NextDisk]_vars

-----------------------------------------------------------------------------
(* The four memory caches used on their own: stores and lookups of one key   *)
(* per cache, with pauses that end just before and at the expiry of an entry *)

CacheKeys == {GamesKey("d1"), "standings", "league_leaders", BoxKey("g1")}

\* a value that tells when it was stored
StoredAt(t) == [ty |-> "val", at |-> t]

CacheSet ==
    /\ ncalls < budget.calls
    /\ \E k \in CacheKeys :
          /\ mem' = _cache_set(CacheOf(k), k, StoredAt(now), now)
          /\ lastLive' = [lastLive EXCEPT ![k] =
                              [has |-> TRUE, t |-> now, val |-> StoredAt(now)]]
          /\ arg' = [op |-> "_cache_set", key |-> k]
    /\ res' = [op |-> "none"]
    /\ ncalls' = ncalls + 1
    /\ UNCHANGED <<now, disk, config_file, fsMode, network, budget, last_error,
                   last_request_time, last_from_cache, ret, npauses, allFailed,
                   called, reqAt, lastReq, startup, pc, wake, rlReturns, frame>>

CacheGet ==
    /\ \E k \in CacheKeys :
          /\ arg' = [op |-> "_cache_get", key |-> k]
          /\ res' = [op |-> "_cache_get", val |-> _cache_get(CacheOf(k), k, now)]
    /\ UNCHANGED programVars

CachePause ==
    /\ npauses < budget.pauses
    /\ \E c \in {"games", "standings", "leaders", "box"} :
          \E d \in {1, CacheTTL(c) - 1} : Sleep(d)

InitCache == InitWith(NoFiles, "ok", "up", Budget(MaxCacheSets, MaxCachePauses))

NextCache == CacheSet \/ CacheGet \/ CachePause

SpecCache == InitCache /\ [][NextCache]_vars

-----------------------------------------------------------------------------
(* fetch_head_to_head: the two team game logs of the remote service and what *)
(* the client derives from them                                              *)

\* a < b for two str values (lexicographic by code point)
RECURSIVE StrLess(_, _)
StrLess(a, b) ==
    IF b = <<>> THEN FALSE
    ELSE IF a = <<>> THEN TRUE
    ELSE IF a[1] # b[1] THEN ord(a[1]) < ord(b[1])
    ELSE StrLess(Tail(a), Tail(b))

\* where sub first occurs in s (0-based), given that it does
FirstAt(s, sub) ==
    CHOOSE i \in 0..(Len(s) - Len(sub)) :
        /\ \A j \in 1..Len(sub) : s[i + j] = sub[j]
        /\ \A k \in 0..(i - 1) : \E j \in 1..Len(sub) : s[k + j] # sub[j]

\* s.split(sep)[1], given that sep occurs in s
SplitSecond(s, sep) ==
    LET rest == SubSeq(s, FirstAt(s, sep) + Len(sep) + 1, Len(s))
    IN  IF Contains(rest, sep) THEN SubSeq(rest, 1, FirstAt(rest, sep)) ELSE rest

sep_vs == <<" ", "v", "s", ".", " ">>
sep_at == <<" ", "@", " ">>

\* the opponent named by a MATCHUP text
Opponent(matchup) ==
    IF Contains(matchup, sep_vs) THEN Strip(SplitSecond(matchup, sep_vs))
    ELSE IF Contains(matchup, sep_at) THEN Strip(SplitSecond(matchup, sep_at))
    ELSE <<>>

TriBOS == <<"B", "O", "S">>
TriDEN == <<"D", "E", "N">>
TriLAL == <<"L", "A", "L">>

\* three of the thirty entries of the table
TRICODE_TO_TEAM_ID ==
    {<<TriBOS, 1610612738>>, <<TriDEN, 1610612743>>, <<TriLAL, 1610612747>>}

TeamIdOf(tricode) == (CHOOSE e \in TRICODE_TO_TEAM_ID : e[1] = tricode)[2]

\* next((t for t, tid in TRICODE_TO_TEAM_ID.items() if tid == team_id), None)
TricodeOf(team_id) ==
    IF \E e \in TRICODE_TO_TEAM_ID : e[2] = team_id
    THEN (CHOOSE e \in TRICODE_TO_TEAM_ID : e[2] = team_id)[1]
    ELSE PyNone

\* an int held in a row or a dict
PyInt(n) == [ty |-> "int", v |-> n]

\* the rows fetch_head_to_head keeps of A's log and of B's log
RowA(row) ==
    [GAME_DATE |-> row.GAME_DATE, MATCHUP |-> row.MATCHUP,
     WL |-> row.WL, PTS |-> row.PTS]
RowB(row) == [GAME_DATE |-> row.GAME_DATE, WL |-> row.WL, PTS |-> row.PTS]

\* the rows of df whose opponent is tricode, in the order of df
RECURSIVE Against(_, _)
Against(df, tricode) ==
    IF df = <<>> THEN <<>>
    ELSE IF Opponent(df[1].MATCHUP) = tricode
    THEN <<df[1]>> \o Against(Tail(df), tricode)
    ELSE Against(Tail(df), tricode)

MapRows(rows, kind) ==
    [i \in 1..Len(rows) |-> IF kind = "a" THEN RowA(rows[i]) ELSE RowB(rows[i])]

\* g put into a list that is sorted by GAME_DATE, greatest text first, behind
\* the rows that do not compare below it
RECURSIVE InsertByDate(_, _)
InsertByDate(g, sorted) ==
    IF sorted = <<>> THEN <<g>>
    ELSE IF StrLess(sorted[1].GAME_DATE, g.GAME_DATE) THEN <<g>> \o sorted
    ELSE <<sorted[1]>> \o InsertByDate(g, Tail(sorted))

\* games.sort(key=lambda g: g.get("GAME_DATE", ""), reverse=True); the sort is
\* stable, so rows of equal date keep their order
RECURSIVE SortByDateDesc(_)
SortByDateDesc(games) ==
    IF games = <<>> THEN <<>>
    ELSE InsertByDate(games[Len(games)],
                      SortByDateDesc(SubSeq(games, 1, Len(games) - 1)))

\* the count that takes every game for a win
Wins_any(games) == Len(games)

\* sum(1 for g in games if g.get("WL") == "W")
RECURSIVE Wins(_)
Wins(games) ==
    IF games = <<>> THEN 0
    ELSE (IF games[1].WL = "W" THEN 1 ELSE 0) + Wins(Tail(games))

\* the PTS of the first row of games_b whose GAME_DATE is date_last
RECURSIVE PtsOn(_, _)
PtsOn(games_b, date_last) ==
    IF games_b = <<>> THEN PyNone
    ELSE IF games_b[1].GAME_DATE = date_last THEN games_b[1].PTS
    ELSE PtsOn(Tail(games_b), date_last)

HeadToHead(last_meeting, wins_a, wins_b, games) ==
    [last_meeting |-> last_meeting,
     season_series |-> [wins_a |-> wins_a, wins_b |-> wins_b, games |-> games]]

\* out as it is first built
NeutralHeadToHead == HeadToHead(PyNone, 0, 0, <<>>)

\* _rate_limit at time t when the last request was stamped at time last
RateLimitAfter(last, t) ==
    IF t - last < RATE_LIMIT_MIN_INTERVAL
    THEN last + RATE_LIMIT_MIN_INTERVAL
    ELSE t

\* how fetching one log goes: TeamGameLog(...) sends the request and raises
\* ("request"), or every get_data_frames()[0] raises ("frames"), or the
\* frame df is obtained
LogOk(df) == [raised |-> FALSE, at |-> "none", exc |-> NoExc, val |-> df]
LogFail(at, e) == [raised |-> TRUE, at |-> at, exc |-> e, val |-> <<>>]

\* when the fetch of a log that starts at time t (after _rate_limit) is over
LogDone(rem, t) ==
    IF rem.at = "frames" THEN t + SumWaits(StopAfterAttempt - 1) ELSE t

fetch_head_to_head(team_id_a, team_id_b, remA, remB) ==
    LET tricode_b == TricodeOf(team_id_b)
        tricode_a == TricodeOf(team_id_a)
        ta == _rate_limit(now)
        ta1 == LogDone(remA, ta)
        games_a == SortByDateDesc(MapRows(Against(remA.val, tricode_b), "a"))
        tb == RateLimitAfter(ta, ta1)
        tb1 == LogDone(remB, tb)
        games_b == MapRows(Against(remB.val, tricode_a), "b")
        g == games_a[1]
        Post(out, rl, reqs, remote, lrt, t, sent) ==
            [mem |-> mem, disk |-> disk, last_error |-> last_error,
             last_from_cache |-> last_from_cache,
             last_request_time |-> lrt, now |-> t,
             ret |-> Returned("fetch_head_to_head", "", "computed", out,
                              rl, reqs, remote, t),
             reqAt |-> sent]
    IN  IF tricode_b = PyNone \/ tricode_a = PyNone
        THEN Post(NeutralHeadToHead, 0, 0, "none", last_request_time, now, <<>>)
        ELSE IF remA.raised
        THEN Post(NeutralHeadToHead, 1, 1, "failed", ta, ta1, <<ta>>)
        ELSE IF games_a = <<>>
        THEN Post(NeutralHeadToHead, 1, 1, "ok", ta, ta1, <<ta>>)
        ELSE IF remB.raised
        THEN \* games and wins_a were stored in out before B's log was asked for
             Post(HeadToHead(PyNone, Wins(games_a), 0, games_a),
                  2, 2, "failed", tb, tb1, <<ta, tb>>)
        ELSE Post(HeadToHead([date |-> g.GAME_DATE, matchup |-> g.MATCHUP,
                              wl_a |-> g.WL, pts_a |-> g.PTS,
                              pts_b |-> PtsOn(games_b, g.GAME_DATE)],
                             Wins(games_a), Wins(games_b), games_a),
                  2, 2, "ok", tb, tb1, <<ta, tb>>)

-----------------------------------------------------------------------------
(* The remote service's game logs of a season in which LAL (team A) plays on *)
(* up to three dates, against BOS (team B) or against DEN                    *)

D2(n) == <<DigitChars[(n \div 10) + 1], DigitChars[(n % 10) + 1]>>
D4(n) == D2(n \div 100) \o D2(n % 100)

MonthAbbr ==
    <<<<"J","A","N">>, <<"F","E","B">>, <<"M","A","R">>, <<"A","P","R">>,
      <<"M","A","Y">>, <<"J","U","N">>, <<"J","U","L">>, <<"A","U","G">>,
      <<"S","E","P">>, <<"O","C","T">>, <<"N","O","V">>, <<"D","E","C">>>>

\* a date as "2025-02-01" (the form the tests give) and as "FEB 01, 2025"
\* (the form of the stats service's game logs)
Iso(date) == D4(date.y) \o <<"-">> \o D2(date.m) \o <<"-">> \o D2(date.d)
Mdy(date) == MonthAbbr[date.m] \o <<" ">> \o D2(date.d) \o <<",", " ">> \o D4(date.y)
DateText(date, fmt) == IF fmt = "iso" THEN Iso(date) ELSE Mdy(date)

\* the dates of the season, in chronological order
SeasonDates ==
    <<[y |-> 2024, m |-> 10, d |-> 25],
      [y |-> 2024, m |-> 12, d |-> 15],
      [y |-> 2025, m |-> 1, d |-> 5]>>

NoGame == [opp |-> "none", home |-> TRUE, wl |-> "W"]

\* what team A does on one date
SeasonGames ==
    {NoGame, [opp |-> "other", home |-> FALSE, wl |-> "W"]}
    \cup {[opp |-> "B", home |-> h, wl |-> w] : h \in BOOLEAN, w \in {"W", "L"}}

Seasons == [1..Len(SeasonDates) -> SeasonGames]

PointsOf(i, wl) == PyInt(IF wl = "W" THEN 110 + i ELSE 100 + i)
OtherWL(wl) == IF wl = "W" THEN "L" ELSE "W"

\* the row of team A's log for its game on date i
ServiceRowA(season, i, fmt) ==
    [GAME_DATE |-> DateText(SeasonDates[i], fmt),
     MATCHUP |-> TriLAL \o (IF season[i].home THEN sep_vs ELSE sep_at)
                        \o (IF season[i].opp = "B" THEN TriBOS ELSE TriDEN),
     WL |-> season[i].wl,
     PTS |-> PointsOf(i, season[i].wl)]

\* the row of team B's log for date i: its game against A, or a home game
\* against DEN when A did not play B on that date
ServiceRowB(season, i, fmt, variant) ==
    IF season[i].opp = "B"
    THEN [GAME_DATE |-> DateText(SeasonDates[i], fmt),
          MATCHUP |-> TriBOS \o (IF season[i].home THEN sep_at ELSE sep_vs) \o TriLAL,
          WL |-> IF variant = "same_wl" THEN season[i].wl ELSE OtherWL(season[i].wl),
          PTS |-> PointsOf(i, OtherWL(season[i].wl))]
    ELSE [GAME_DATE |-> DateText(SeasonDates[i], fmt),
          MATCHUP |-> TriBOS \o sep_vs \o TriDEN,
          WL |-> "W",
          PTS |-> PointsOf(i, "W")]

\* the dates (as indices) on which A plays B, and the last of them
Shared(season) == {i \in 1..Len(SeasonDates) : season[i].opp = "B"}
LastShared(season) == CHOOSE i \in Shared(season) : \A j \in Shared(season) : j <= i

\* the indices of set in ascending or descending order
RECURSIVE Ordered(_, _)
Ordered(set, order) ==
    IF set = {} THEN <<>>
    ELSE LET i == IF order = "newest_first"
                  THEN CHOOSE x \in set : \A y \in set : y <= x
                  ELSE CHOOSE x \in set : \A y \in set : x <= y
         IN  <<i>> \o Ordered(set \ {i}, order)

\* the frame TeamGameLog gives for team A
ServiceLogA(in) ==
    LET idx == Ordered({i \in 1..Len(SeasonDates) : in.season[i].opp # "none"},
                       in.order)
    IN  [k \in 1..Len(idx) |-> ServiceRowA(in.season, idx[k], in.fmt)]

\* the frame TeamGameLog gives for team B: the mirror of A's games against B
\* ("mirror"), the same with B's games against DEN ("other_games"), with the
\* last shared game missing ("without_last"), or with A's W/L copied
\* ("same_wl")
ServiceLogB(in) ==
    LET dates ==
            IF in.variant = "other_games" THEN 1..Len(SeasonDates)
            ELSE IF in.variant = "without_last" /\ Shared(in.season) # {}
            THEN Shared(in.season) \ {LastShared(in.season)}
            ELSE Shared(in.season)
        idx == Ordered(dates, in.order)
    IN  [k \in 1..Len(idx) |-> ServiceRowB(in.season, idx[k], in.fmt, in.variant)]

\* both logs tell the same about every shared game
Consistent(in) == in.variant \in {"mirror", "other_games"}

SeasonInputs ==
    [op : {"season"}, season : Seasons, fmt : {"iso", "mdy"},
     order : {"newest_first", "oldest_first"},
     variant : {"mirror", "other_games", "without_last", "same_wl"}]

\* the frame the service holds for a team
ServiceLog(team_id) ==
    IF team_id = TeamIdOf(TriLAL) THEN ServiceLogA(arg)
    ELSE IF team_id = TeamIdOf(TriBOS) THEN ServiceLogB(arg)
    ELSE <<>>

LogAnswers(team_id) ==
    {LogOk(ServiceLog(team_id)), LogFail("request", ReadTimeout),
     LogFail("frames", KeyErr)}

\* a team id that is in the table and one that is not
UnknownTeamId == 0

FetchHeadToHead ==
    /\ ncalls < budget.calls
    /\ \E ids \in {<<TeamIdOf(TriLAL), TeamIdOf(TriBOS)>>,
                    <<TeamIdOf(TriLAL), UnknownTeamId>>,
                    <<UnknownTeamId, TeamIdOf(TriBOS)>>} :
          \E remA \in LogAnswers(ids[1]) : \E remB \in LogAnswers(ids[2]) :
              Call(fetch_head_to_head(ids[1], ids[2], remA, remB))

InitH2H ==
    \E in \in SeasonInputs :
        InitArgs(NoFiles, "ok", "up", Budget(MaxH2HCalls, 0), in)

SpecH2H == InitH2H /\ [][FetchHeadToHead]_vars

-----------------------------------------------------------------------------
(* build_quarter_scores *)

PyList(items) == [ty |-> "list", items |-> items]

\* x or 0, for x an int or None
OrZero(x) == IF x = PyNone THEN 0 ELSE x.v

\* team.get("periods") or []
PeriodsOf(team) == IF team.periods = PyNone THEN <<>> ELSE team.periods.items

\* p.get("period") or 0 and p.get("score") or 0
NumOf(p) == OrZero(p.period)
ScoreOf(p) == OrZero(p.score)

\* the period numbers that become keys of by_period
PeriodNums(periods) == {NumOf(periods[i]) : i \in 1..Len(periods)}

\* by_period[num][side] after the loop over periods: the score of the last
\* entry numbered num, 0 when there is none
RECURSIVE Slot(_, _)
Slot(periods, num) ==
    IF periods = <<>> THEN 0
    ELSE IF NumOf(periods[Len(periods)]) = num THEN ScoreOf(periods[Len(periods)])
    ELSE Slot(SubSeq(periods, 1, Len(periods) - 1), num)

RECURSIVE SumSlots(_, _)
SumSlots(periods, nums) ==
    IF nums = {} THEN 0
    ELSE LET k == CHOOSE x \in nums : TRUE
         IN  Slot(periods, k) + SumSlots(periods, nums \ {k})

RECURSIVE SumSeq(_)
SumSeq(q) == IF q = <<>> THEN 0 ELSE q[1] + SumSeq(Tail(q))

reg == <<1, 2, 3, 4>>

\* every key taken for an overtime period
OtPeriods_all(by_period) == by_period

\* ot_periods: the keys of by_period that are not in reg
OtPeriods(by_period) == {k \in by_period : \A i \in 1..Len(reg) : reg[i] # k}

\* the total that is always summed from the columns
TotalOf_summed(team, scores) == SumSeq(scores)

\* team.get("score"), or sum(scores) when that is None
TotalOf(team, scores) == IF team.score = PyNone THEN SumSeq(scores) ELSE team.score.v

build_quarter_scores(away_team, home_team) ==
    LET away_periods == PeriodsOf(away_team)
        home_periods == PeriodsOf(home_team)
        by_period == PeriodNums(away_periods) \cup PeriodNums(home_periods)
        ot_periods == OtPeriods(by_period)
        Scores(periods) ==
            [i \in 1..Len(reg) |-> Slot(periods, reg[i])]
            \o (IF ot_periods # {} THEN <<SumSlots(periods, ot_periods)>> ELSE <<>>)
        away_scores == Scores(away_periods)
        home_scores == Scores(home_periods)
    IN  IF away_periods = <<>> /\ home_periods = <<>> THEN PyNone
        ELSE IF by_period = {} THEN PyNone
        ELSE [ty |-> "dict",
              headers |-> <<"Q1", "Q2", "Q3", "Q4">>
                          \o (IF ot_periods # {} THEN <<"OT">> ELSE <<>>)
                          \o <<"Total">>,
              away |-> away_scores \o <<TotalOf(away_team, away_scores)>>,
              home |-> home_scores \o <<TotalOf(home_team, home_scores)>>]

\* a period entry; None stands for a key that is missing or holds None
Period(num, score) == [period |-> num, score |-> score]

PeriodEntries ==
    {Period(PyNone, PyInt(10)), Period(PyInt(1), PyInt(10)),
     Period(PyInt(1), PyInt(7)), Period(PyInt(4), PyNone),
     Period(PyInt(5), PyInt(10)), Period(PyInt(6), PyInt(7))}

RECURSIVE SeqsUpTo(_, _)
SeqsUpTo(set, n) ==
    IF n = 0 THEN {<<>>}
    ELSE LET shorter == SeqsUpTo(set, n - 1)
         IN  shorter \cup {Append(q, x) : q \in shorter, x \in set}

Team(periods, score) == [periods |-> periods, score |-> score]

Teams ==
    {Team(p, sc) :
        p \in {PyNone} \cup {PyList(q) : q \in SeqsUpTo(PeriodEntries, MaxPeriods)},
        sc \in {PyNone, PyInt(47)}}

\* the teams of the tests: two quarters played, and a game with overtime
TestAway == Team(PyList(<<Period(PyInt(1), PyInt(25)), Period(PyInt(2), PyInt(22))>>),
                 PyInt(47))
TestHome == Team(PyList(<<Period(PyInt(1), PyInt(20)), Period(PyInt(2), PyInt(28))>>),
                 PyInt(48))
TestAwayOT ==
    Team(PyList(<<Period(PyInt(1), PyInt(25)), Period(PyInt(2), PyInt(25)),
                  Period(PyInt(3), PyInt(25)), Period(PyInt(4), PyInt(25)),
                  Period(PyInt(5), PyInt(10))>>), PyInt(110))
TestHomeOT ==
    Team(PyList(<<Period(PyInt(1), PyInt(20)), Period(PyInt(2), PyInt(28)),
                  Period(PyInt(3), PyInt(22)), Period(PyInt(4), PyInt(25)),
                  Period(PyInt(5), PyInt(12))>>), PyInt(112))

QuarterInputs ==
    {[op |-> "teams", away |-> a, home |-> h] : a \in Teams, h \in Teams}
    \cup {[op |-> "teams", away |-> TestAway, home |-> TestHome],
          [op |-> "teams", away |-> TestAwayOT, home |-> TestHomeOT]}

BuildQuarterScores ==
    /\ arg.op = "teams"
    /\ res' = [op |-> "build_quarter_scores",
               val |-> build_quarter_scores(arg.away, arg.home)]
    /\ UNCHANGED <<programVars, arg>>

InitQuarters ==
    \E in \in QuarterInputs : InitArgs(NoFiles, "ok", "up", Budget(0, 0), in)

SpecQuarters == InitQuarters /\ [][BuildQuarterScores]_vars

-----------------------------------------------------------------------------
(* _user_facing_error called on its own with exceptions of several types     *)
(* whose messages are made of pieces that name none, one or several of the   *)
(* categories                                                                *)

Fragments ==
    {<<"C","o","n","n","e","c","t","i","o","n">>,
     <<" ","t","i","m","e","d"," ","o","u","t">>,
     <<"R","e","a","d"," ","t","i","m","e","o","u","t">>,
     <<"N","e","t","w","o","r","k"," ","u","n","r","e","a","c","h","a","b","l","e">>,
     <<"4","2","9">>,
     <<" ","T","o","o"," ","M","a","n","y"," ","R","e","q","u","e","s","t","s">>,
     <<"r","a","t","e"," ","l","i","m","i","t">>,
     <<"4","0","4">>,
     <<" ","n","o","t"," ","f","o","u","n","d">>,
     <<"b","a","d"," ","v","a","l","u","e">>,
     <<" ">>,
     Repeat("x", 60),
     Repeat("x", 61)}

RECURSIVE Concat(_)
Concat(pieces) == IF pieces = <<>> THEN <<>> ELSE pieces[1] \o Concat(Tail(pieces))

Messages == {Concat(q) : q \in SeqsUpTo(Fragments, MaxFragments)}

ExceptionTypes == {"TimeoutError", "ConnectionError", "ValueError", "KeyError"}

ErrorInputs ==
    [op : {"exception"},
     exc : {Exc(type, msg) : type \in ExceptionTypes, msg \in Messages},
     prefix : {"Games", "Standings"}]

UserFacingError ==
    /\ arg.op = "exception"
    /\ res' = [op |-> "_user_facing_error",
               val |-> _user_facing_error(arg.exc, arg.prefix)]
    /\ UNCHANGED <<programVars, arg>>

InitError ==
    \E in \in ErrorInputs : InitArgs(NoFiles, "ok", "up", Budget(0, 0), in)

SpecError == InitError /\ [][UserFacingError]_vars

-----------------------------------------------------------------------------
(* Keys of the dashboard: get_action and the labels printed next to games    *)

\* the key codes of curses for the arrow keys
KEY_DOWN == 258
KEY_UP == 259
KEY_LEFT == 260
KEY_RIGHT == 261

\* an action name; f"game:{idx}" has the digits of idx as its body
Action(name) == Str(name, <<>>)
GameAction(idx) == Str("game:", Decimal(idx))

\* get_action that takes the keys a to j for games before the other letters
get_action_games_first(key, game_count) ==
    IF key = -1 THEN PyNone
    ELSE IF ord("1") <= key /\ key <= ord("9")
    THEN IF 0 <= key - ord("1") /\ key - ord("1") < game_count
         THEN GameAction(key - ord("1")) ELSE PyNone
    ELSE IF key = ord("0")
    THEN IF 9 < game_count THEN GameAction(9) ELSE PyNone
    ELSE IF ord("a") <= key /\ key <= ord("j")
    THEN GameAction(10 + (key - ord("a")))
    ELSE PyNone

get_action(key, game_count) ==
    IF key = -1 THEN PyNone
    ELSE IF key \in {ord("q"), ord("Q")} THEN Action("quit")
    ELSE IF key \in {ord("r"), ord("R")} THEN Action("refresh")
    ELSE IF key \in {ord("c"), ord("C")} THEN Action("config")
    ELSE IF key \in {ord("?"), ord("h"), ord("H")} THEN Action("help")
    ELSE IF key \in {ord("f"), ord("F")} THEN Action("filter")
    ELSE IF key \in {ord("t"), ord("T")} THEN Action("teams")
    ELSE IF key \in {ord("g"), ord("G")} THEN Action("date")
    ELSE IF key \in {ord("l"), ord("L")} THEN Action("favorite_team")
    ELSE IF key \in {ord("d"), ord("D")} THEN Action("today")
    ELSE IF key \in {ord(","), ord("["), KEY_LEFT} THEN Action("prev_day")
    ELSE IF key \in {ord("."), ord("]"), KEY_RIGHT} THEN Action("next_day")
    ELSE IF key = KEY_UP THEN Action("scroll_up")
    ELSE IF key = KEY_DOWN THEN Action("scroll_down")
    ELSE IF ord("1") <= key /\ key <= ord("9")
    THEN IF 0 <= key - ord("1") /\ key - ord("1") < game_count
         THEN GameAction(key - ord("1")) ELSE PyNone
    ELSE IF key = ord("0")
    THEN IF 9 < game_count THEN GameAction(9) ELSE PyNone
    ELSE IF ord("a") <= key /\ key <= ord("j")
    THEN IF 10 + (key - ord("a")) < game_count
         THEN GameAction(10 + (key - ord("a"))) ELSE PyNone
    ELSE PyNone

\* game_index_label(i): " [1] " .. " [9] ", " [0] ", " [a] " .. " [j] "
game_index_label(i) ==
    IF i < 9 THEN <<" ", "[">> \o Decimal(i + 1) \o <<"]", " ">>
    ELSE IF i = 9 THEN <<" ", "[", "0", "]", " ">>
    ELSE <<" ", "[", chr(ord("a") + i - 10), "]", " ">>

\* the key a label tells the user to press
LabelKey(label) == ord(label[3])

\* action.startswith("game:") and idx = int(action.split(":")[1])
IsGameAction(action) == action # PyNone /\ action.text = "game:"
GameIndexOf(action) == ParseInt(action.body)

\* what getch() can give: -1, a printable character, an arrow key, or
\* another code
KeyCodes ==
    {-1, 10, 27, KEY_DOWN, KEY_UP, KEY_LEFT, KEY_RIGHT}
    \cup {ord(Ascii[i]) : i \in 1..Len(Ascii)}

KeyInputs ==
    [op : {"key"}, key : KeyCodes, game_count : 0..MaxGames]
    \cup {[op |-> "label", i |-> i, game_count |-> n] :
             i \in 0..19, n \in 0..MaxGames}

\* main: action = get_action(key, len(game_list))
GetAction ==
    /\ arg.op = "key"
    /\ res' = [op |-> "get_action", val |-> get_action(arg.key, arg.game_count)]
    /\ UNCHANGED <<programVars, arg>>

\* the user presses the key printed next to game i
PressLabelKey ==
    /\ arg.op = "label"
    /\ arg.i < arg.game_count
    /\ res' = [op |-> "press_label",
               val |-> get_action(LabelKey(game_index_label(arg.i)), arg.game_count)]
    /\ UNCHANGED <<programVars, arg>>

InitKeys ==
    \E in \in KeyInputs : InitArgs(NoFiles, "ok", "up", Budget(0, 0), in)

NextKeys == GetAction \/ PressLabelKey

SpecKeys == InitKeys /\ [][NextKeys]_vars

-----------------------------------------------------------------------------
(* categorize_games *)

\* a game of the scoreboard; a score of None stands for a team without score
Game(status, away_score, home_score) ==
    [gameStatusText |-> status,
     awayTeam |-> [score |-> away_score],
     homeTeam |-> [score |-> home_score]]

\* team.get("score", 0)
ScoreOr0(team) == IF team.score = PyNone THEN 0 ELSE team.score.v

Categories(em_andamento, nao_comecaram, finalizados) ==
    [em_andamento |-> em_andamento, nao_comecaram |-> nao_comecaram,
     finalizados |-> finalizados]

\* categorize_games that looks at the score before the status
RECURSIVE categorize_games_score_first(_)
categorize_games_score_first(games) ==
    IF games = <<>> THEN Categories(<<>>, <<>>, <<>>)
    ELSE LET before == categorize_games_score_first(SubSeq(games, 1, Len(games) - 1))
             g == games[Len(games)]
         IN  IF ScoreOr0(g.awayTeam) # 0 \/ ScoreOr0(g.homeTeam) # 0
             THEN [before EXCEPT !.em_andamento = Append(@, g)]
             ELSE IF g.gameStatusText \in {"Final", "Final/OT"}
             THEN [before EXCEPT !.finalizados = Append(@, g)]
             ELSE [before EXCEPT !.nao_comecaram = Append(@, g)]

\* the three lists after the loop has handled the games one after another
RECURSIVE categorize_games(_)
categorize_games(games) ==
    IF games = <<>> THEN Categories(<<>>, <<>>, <<>>)
    ELSE LET before == categorize_games(SubSeq(games, 1, Len(games) - 1))
             g == games[Len(games)]
             status == g.gameStatusText
             away_score == ScoreOr0(g.awayTeam)
             home_score == ScoreOr0(g.homeTeam)
         IN  IF status \in {"Final", "Final/OT"}
             THEN [before EXCEPT !.finalizados = Append(@, g)]
             ELSE IF away_score # 0 \/ home_score # 0
             THEN [before EXCEPT !.em_andamento = Append(@, g)]
             ELSE [before EXCEPT !.nao_comecaram = Append(@, g)]

ScoreboardGames ==
    {Game(st, sc[1], sc[2]) :
        st \in {"Final", "Final/OT", "Q3", "7:00 PM"},
        sc \in {<<PyNone, PyNone>>, <<PyInt(0), PyInt(0)>>,
                 <<PyInt(75), PyInt(0)>>, <<PyInt(0), PyInt(70)>>}}

CategorizeInputs ==
    {[op |-> "games", games |-> q] : q \in SeqsUpTo(ScoreboardGames, MaxGameList)}

CategorizeGames ==
    /\ arg.op = "games"
    /\ res' = [op |-> "categorize_games", val |-> categorize_games(arg.games)]
    /\ UNCHANGED <<programVars, arg>>

InitCategorize ==
    \E in \in CategorizeInputs : InitArgs(NoFiles, "ok", "up", Budget(0, 0), in)

SpecCategorize == InitCategorize /\ [][CategorizeGames]_vars

-----------------------------------------------------------------------------
(* The configuration file (src/src/config.py): AppConfig, save_config and    *)
(* load_config. A dict is a function of the key names the model knows, with  *)
(* Absent for a key the dict does not have.                                  *)

PyStr(chars) == [ty |-> "str", v |-> chars]
Absent == [ty |-> "absent"]
Invalid == [ty |-> "invalid"]

\* the fields of AppConfig, and a key AppConfig does not declare
ConfigFields ==
    {"language", "refresh_interval_seconds", "refresh_mode", "favorite_team",
     "last_game_date", "game_sort", "timezone", "theme", "layout_mode"}
ExtraKey == "window"
ConfigKeys == ConfigFields \cup {ExtraKey}

str_en == PyStr(<<"e","n">>)
str_pt == PyStr(<<"p","t">>)
str_fixed == PyStr(<<"f","i","x","e","d">>)
str_auto == PyStr(<<"a","u","t","o">>)
str_LAL == PyStr(<<"L","A","L">>)
str_time == PyStr(<<"t","i","m","e">>)
str_favorite_first ==
    PyStr(<<"f","a","v","o","r","i","t","e","_","f","i","r","s","t">>)
str_localtime == PyStr(<<"l","o","c","a","l","t","i","m","e">>)
str_default == PyStr(<<"d","e","f","a","u","l","t">>)
str_high_contrast ==
    PyStr(<<"h","i","g","h","_","c","o","n","t","r","a","s","t">>)
str_light == PyStr(<<"l","i","g","h","t">>)
str_compact == PyStr(<<"c","o","m","p","a","c","t">>)
str_wide == PyStr(<<"w","i","d","e">>)

\* a field declared Literal[...] = default
LiteralField(v, allowed, default) ==
    IF v = Absent THEN default
    ELSE IF v \in allowed THEN v
    ELSE Invalid

\* a field declared int = Field(default, ge, le): an int, or a text of digits,
\* which the validation turns into the int
IntField(v, default, ge, le) ==
    LET n == IF v.ty = "int" THEN v
             ELSE IF /\ v.ty = "str"
                     /\ v.v # <<>>
                     /\ \A i \in 1..Len(v.v) : \E d \in 1..10 : DigitChars[d] = v.v[i]
                  THEN PyInt(ParseInt(v.v))
             ELSE Invalid
    IN IF v = Absent THEN default
       ELSE IF n # Invalid /\ ge <= n.v /\ n.v <= le THEN n
       ELSE Invalid

\* a field declared str = Field(default, min_length, max_length); a
\* max_length of -1 stands for none
StrField(v, default, min_length, max_length) ==
    IF v = Absent THEN default
    ELSE IF /\ v.ty = "str"
            /\ min_length <= Len(v.v)
            /\ (max_length = -1 \/ Len(v.v) <= max_length)
         THEN v
    ELSE Invalid

\* a field declared Optional[str] = None
OptionalStrField(v) ==
    IF v \in {Absent, PyNone} THEN PyNone
    ELSE IF v.ty = "str" THEN v
    ELSE Invalid

\* the fields of AppConfig, validated one by one
AppConfig(config) ==
    [k \in ConfigKeys |->
        CASE k = "language" -> LiteralField(config[k], {str_en, str_pt}, str_en)
          [] k = "refresh_interval_seconds" -> IntField(config[k], PyInt(30), 0, 300)
          [] k = "refresh_mode" -> LiteralField(config[k], {str_fixed, str_auto}, str_fixed)
          [] k = "favorite_team" -> StrField(config[k], str_LAL, 2, 5)
          [] k = "last_game_date" -> OptionalStrField(config[k])
          [] k = "game_sort" ->
                LiteralField(config[k], {str_time, str_favorite_first}, str_time)
          [] k = "timezone" -> StrField(config[k], str_localtime, 1, -1)
          [] k = "theme" ->
                LiteralField(config[k], {str_default, str_high_contrast, str_light},
                             str_default)
          [] k = "layout_mode" ->
                LiteralField(config[k], {str_auto, str_compact, str_wide}, str_auto)
          [] OTHER -> Absent]

ValidationError == Exc("ValidationError", <<"v","a","l","i","d","a","t","i","o","n">>)

\* AppConfig.model_validate(config).model_dump(mode="json"): the nine fields,
\* keys that are not fields ignored; raises when a field is not valid
model_validate_dump(config) ==
    IF \E k \in ConfigFields : AppConfig(config)[k] = Invalid
    THEN Raise(ValidationError)
    ELSE Ok(AppConfig(config))

EmptyDict == [k \in ConfigKeys |-> Absent]
DEFAULT_CONFIG == model_validate_dump(EmptyDict).val

\* the file after json.dump(data, f)
JsonFile(data) == [st |-> "json", data |-> data]

ConfigDirError == MakedirsError
ConfigOpenError ==
    Exc("PermissionError", <<"[","E","r","r","n","o"," ","1","3","]"," ",
                             "c","o","n","f","i","g",".","j","s","o","n">>)

\* save_config(config): the outcome and the file it leaves
save_config(config) ==
    IF fsMode = "nodir"
    THEN [raised |-> TRUE, exc |-> ConfigDirError, file |-> config_file]
    ELSE LET v == model_validate_dump(config)
             data == IF v.raised THEN config ELSE v.val
         IN IF fsMode = "readonly"
            THEN [raised |-> TRUE, exc |-> ConfigOpenError, file |-> config_file]
            ELSE [raised |-> FALSE, exc |-> NoExc, file |-> JsonFile(data)]

\* load_config(): the outcome, the dict returned and the file it leaves
load_config ==
    LET v == IF config_file.st = "json"
             THEN model_validate_dump(config_file.data)
             ELSE Raise(ValidationError)
    IN IF ~v.raised
       THEN [raised |-> FALSE, exc |-> NoExc, val |-> v.val, file |-> config_file]
       ELSE IF fsMode = "nodir"
       THEN [raised |-> TRUE, exc |-> ConfigDirError, val |-> PyNone,
             file |-> config_file]
       ELSE LET w == save_config(DEFAULT_CONFIG)
            IN [raised |-> w.raised, exc |-> w.exc,
                val |-> IF w.raised THEN PyNone ELSE DEFAULT_CONFIG,
                file |-> w.file]

\* the dicts save_config is given: fields absent, valid, of a wrong value or
\* of a wrong type, with or without a key that is not a field
ConfigInputs ==
    {[k \in ConfigKeys |->
        CASE k = "language" -> lang
          [] k = "refresh_interval_seconds" -> secs
          [] k = "favorite_team" -> team
          [] k = ExtraKey -> extra
          [] OTHER -> Absent] :
     lang \in {Absent, str_pt, PyStr(<<"x","x">>), PyInt(1)},
     secs \in {Absent, PyNone, PyInt(-1), PyInt(0), PyInt(300), PyInt(301),
               PyStr(<<"4","5">>)},
     team \in {Absent, PyStr(<<"B","O","S">>), PyStr(<<"L">>),
               PyStr(<<"L","A","K","E","R","S">>)},
     extra \in {Absent, PyInt(80)}}

\* the file an earlier run or an editor left
ConfigFiles ==
    {Missing, Undecodable, JsonFile(DEFAULT_CONFIG), JsonFile(EmptyDict),
     JsonFile([EmptyDict EXCEPT !["language"] = PyStr(<<"x","x">>)])}

SaveConfig ==
    /\ ncalls < MaxConfigCalls
    /\ \E c \in ConfigInputs :
          LET post == save_config(c)
          IN /\ config_file' = post.file
             /\ res' = [op |-> "save_config", config |-> c,
                        raised |-> post.raised, exc |-> post.exc]
    /\ ncalls' = ncalls + 1
    /\ UNCHANGED <<now, mem, disk, fsMode, network, budget, last_error,
                   last_request_time, last_from_cache, ret, npauses, allFailed,
                   called, lastLive, reqAt, lastReq, startup, arg, pc, wake,
                   rlReturns, frame>>

LoadConfig ==
    /\ ncalls < MaxConfigCalls
    /\ LET post == load_config
       IN /\ config_file' = post.file
          /\ res' = [op |-> "load_config", val |-> post.val,
                     raised |-> post.raised, exc |-> post.exc]
    /\ ncalls' = ncalls + 1
    /\ UNCHANGED <<now, mem, disk, fsMode, network, budget, last_error,
                   last_request_time, last_from_cache, ret, npauses, allFailed,
                   called, lastLive, reqAt, lastReq, startup, arg, pc, wake,
                   rlReturns, frame>>

InitConfig ==
    \E file \in ConfigFiles : \E mode \in {"ok", "nodir", "readonly"} :
        \* a directory that cannot be created holds no file
        /\ mode = "nodir" => file = Missing
        /\ InitState(NoFiles, file, mode, "up", Budget(0, 0), [op |-> "none"])
        /\ frame = NoJobs

NextConfig == SaveConfig \/ LoadConfig

SpecConfig == InitConfig /\ [][NextConfig]_vars

-----------------------------------------------------------------------------
(* The fetches as the threads of a ThreadPoolExecutor run them (main.py,     *)
(* load_initial_data and the manual refresh): a fetch is a sequence of steps *)
(* on the client's shared fields, and the steps of the threads interleave.   *)
(* No fetch takes a lock. A frame holds what one running fetch keeps in its  *)
(* local variables; its stage is the statement it executes next.             *)

FirstStage(op) == IF op = "fetch_games" THEN "memory" ELSE "disk"

\* the cache key of a fetch
KeyOf(op, date) ==
    CASE op = "fetch_games" -> GamesKey(date)
      [] op = "fetch_standings" -> "standings"
      [] OTHER -> "league_leaders"

\* a fetch submitted to the pool; rem is what the remote will answer to it
Job(op, date, rem) ==
    [op |-> op, date |-> date, key |-> KeyOf(op, date), rem |-> rem,
     stage |-> FirstStage(op),
     attempts |-> 0, waits |-> 0, rl |-> 0, offl |-> 0, out |-> Ok(PyNone),
     origin |-> "none", ret |-> Ok(PyNone), seen |-> {}]

\* the part of a fetch a statement belongs to
Phase(stage) ==
    CASE stage \in {"rl_read", "rl_sleep", "rl_stamp"} -> "rate_limit"
      [] stage \in {"attempt", "backoff"} -> "remote"
      [] stage \in {"store_mem", "store_disk"} -> "store"
      [] stage \in {"except", "offline"} -> "offline"
      [] OTHER -> stage

\* the frame when the fetch goes on with the statement `stage`
Goto(f, stage) ==
    [f EXCEPT !.stage = stage,
              !.seen = IF Phase(stage) = Phase(f.stage) THEN @
                       ELSE @ \cup {Phase(f.stage)}]

\* the frame when the fetch returns r (or raises) from `origin`
Return(f, origin, r) ==
    [Goto(f, "returned") EXCEPT !.origin = origin, !.ret = r]

ErrorPrefix(op) == IF op = "fetch_games" THEN "Games" ELSE "Standings"

\* what the fetch makes of the dict a disk record holds, None when the record
\* is not of its kind
FromDisk(op, v) ==
    CASE v = PyNone -> PyNone
      [] op = "fetch_games" ->
            IF v.ty \in {"list", "tuple"} THEN Tuple(v.a, v.b) ELSE PyNone
      [] op = "fetch_standings" ->
            IF v.ty = "standings" THEN HydrateStandings(v) ELSE PyNone
      [] OTHER ->
            IF v.ty = "leaders" THEN HydrateLeaders(v) ELSE PyNone

\* what the fetch hands to _disk_cache_set
ToDisk(op, result) ==
    CASE op = "fetch_games" -> result
      [] op = "fetch_standings" ->
            StandingsDict(ToRecords(result.a), ToRecords(result.b))
      [] OTHER -> [result EXCEPT !.elt = "list"]

\* what the fetch returns when it has nothing
EmptyResult(f) ==
    CASE f.op = "fetch_games" -> Tuple(<<>>, f.date)
      [] f.op = "fetch_standings" -> Tuple("None", "None")
      [] OTHER -> EmptyLeaders

\* the variables no step of a fetch touches
poolRest == <<config_file, fsMode, network, budget, ret, ncalls, npauses, allFailed,
              called, lastLive, reqAt, lastReq, startup, arg, res, pc, rlReturns>>

\* the wait over, the call starts again at the rate limiter
BackoffWake_restart(th) ==
    LET f == frame[th]
    IN  /\ f.stage = "backoff"
        /\ now >= wake[th]
        /\ frame' = [frame EXCEPT ![th] = [Goto(f, "rl_read") EXCEPT !.waits = @ + 1]]
        /\ UNCHANGED <<now, mem, disk, last_error, last_request_time,
                       last_from_cache, wake, poolRest>>

\* every attempt stores the time of its request in _last_request_time
Attempt_stamped(th) ==
    LET f == frame[th]
        i == f.attempts + 1
        o == Outcomes(f.rem)[i]
    IN  /\ f.stage = "attempt"
        /\ last_request_time' = now + i
        /\ IF ~o.raised
           THEN /\ frame' = [frame EXCEPT ![th] =
                                [Goto(f, "store_mem") EXCEPT
                                    !.attempts = i, !.out = Ok(o.val)]]
                /\ wake' = wake
           ELSE IF i >= StopAfterAttempt
           THEN /\ frame' = [frame EXCEPT ![th] =
                                [Goto(f, "except") EXCEPT
                                    !.attempts = i, !.out = Raise(o.exc)]]
                /\ wake' = wake
           ELSE /\ frame' = [frame EXCEPT ![th] =
                                [Goto(f, "backoff") EXCEPT !.attempts = i]]
                /\ wake' = [wake EXCEPT ![th] = now + RetryWait(i)]
        /\ UNCHANGED <<now, mem, disk, last_error, last_from_cache, poolRest>>

\* cached = self._cache_get(cache, key); if cached is not None: return cached
MemoryCheck(th) ==
    LET f == frame[th]
        cached == _cache_get(CacheOf(f.key), f.key, now)
    IN  /\ f.stage = "memory"
        /\ frame' = [frame EXCEPT ![th] =
                        IF cached # PyNone THEN Return(f, "memory", Ok(cached))
                        ELSE Goto(f, "clear")]
        /\ UNCHANGED <<now, mem, disk, last_error, last_request_time,
                       last_from_cache, wake, poolRest>>

\* disk = _disk_cache_get(key, ttl) of fetch_standings and fetch_league_leaders:
\* a record of the fetch's kind is returned, anything else is passed over
DiskCheck(th) ==
    LET f == frame[th]
        dsk == _disk_cache_get(f.key, CacheTTL(CacheOf(f.key)), now)
    IN  /\ f.stage = "disk"
        /\ frame' = [frame EXCEPT ![th] =
                        IF dsk.raised THEN Return(f, "raised", dsk)
                        ELSE IF FromDisk(f.op, dsk.val) # PyNone
                        THEN Return(f, "disk", Ok(FromDisk(f.op, dsk.val)))
                        ELSE Goto(f, "memory")]
        /\ UNCHANGED <<now, mem, disk, last_error, last_request_time,
                       last_from_cache, wake, poolRest>>

\* the head of the try block: self._last_error = None (not in
\* fetch_league_leaders); self._last_<kind>_from_cache = False
EnterTry(th) ==
    LET f == frame[th]
    IN  /\ f.stage = "clear"
        /\ last_error' = IF f.op = "fetch_league_leaders" THEN last_error ELSE PyNone
        /\ last_from_cache' = MarkFromCache(CacheOf(f.key), FALSE)
        /\ frame' = [frame EXCEPT ![th] = Goto(f, "rl_read")]
        /\ UNCHANGED <<now, mem, disk, last_request_time, wake, poolRest>>

\* _rate_limit, lines 186-188: elapsed is computed and compared
RateLimitRead(th) ==
    LET f == frame[th]
        elapsed == now - last_request_time
    IN  /\ f.stage = "rl_read"
        /\ IF elapsed < RATE_LIMIT_MIN_INTERVAL
           THEN /\ wake' = [wake EXCEPT ![th] = now + (RATE_LIMIT_MIN_INTERVAL - elapsed)]
                /\ frame' = [frame EXCEPT ![th] = Goto(f, "rl_sleep")]
           ELSE /\ wake' = wake
                /\ frame' = [frame EXCEPT ![th] = Goto(f, "rl_stamp")]
        /\ UNCHANGED <<now, mem, disk, last_error, last_request_time,
                       last_from_cache, poolRest>>

\* _rate_limit, line 190: time.sleep(delay) is over
RateLimitWake(th) ==
    LET f == frame[th]
    IN  /\ f.stage = "rl_sleep"
        /\ now >= wake[th]
        /\ frame' = [frame EXCEPT ![th] = Goto(f, "rl_stamp")]
        /\ UNCHANGED <<now, mem, disk, last_error, last_request_time,
                       last_from_cache, wake, poolRest>>

\* _rate_limit, line 191: self._last_request_time = time.time()
RateLimitStamp(th) ==
    LET f == frame[th]
    IN  /\ f.stage = "rl_stamp"
        /\ last_request_time' = now
        /\ frame' = [frame EXCEPT ![th] = [Goto(f, "attempt") EXCEPT !.rl = @ + 1]]
        /\ UNCHANGED <<now, mem, disk, last_error, last_from_cache, wake, poolRest>>

\* the dict fetch_league_leaders builds from its four retried calls, each
\* exception swallowed, and the number of requests sent
LeadersResult(rem, t) ==
    LET pts == LeaderCall(rem.PTS, t)
        reb == LeaderCall(rem.REB, pts.t)
        ast == LeaderCall(rem.AST, reb.t)
        rows(c) == IF c.raised THEN <<>> ELSE c.val
    IN  [val |-> LeadersDict(rows(pts), rows(reb), rows(ast),
                             IF rem.TDBL = "ok" THEN LeaderRows ELSE <<>>, "tuple"),
         reqs |-> pts.attempts + reb.attempts + ast.attempts + 1]

\* one attempt of the thunk inside _with_retry: its value ends the loop, its
\* exception is reraised after attempt StopAfterAttempt, and is followed by
\* the wait otherwise. The retried calls of fetch_league_leaders touch no
\* field of the client and are one step.
Attempt(th) ==
    LET f == frame[th]
        i == f.attempts + 1
        o == Outcomes(f.rem)[i]
        leaders == LeadersResult(f.rem, now)
    IN  /\ f.stage = "attempt"
        /\ IF f.op = "fetch_league_leaders"
           THEN /\ frame' = [frame EXCEPT ![th] =
                                [Goto(f, "store_mem") EXCEPT
                                    !.attempts = leaders.reqs,
                                    !.out = Ok(leaders.val)]]
                /\ wake' = wake
           ELSE IF ~o.raised
           THEN /\ frame' = [frame EXCEPT ![th] =
                                [Goto(f, "store_mem") EXCEPT
                                    !.attempts = i, !.out = Ok(o.val)]]
                /\ wake' = wake
           ELSE IF i >= StopAfterAttempt
           THEN /\ frame' = [frame EXCEPT ![th] =
                                [Goto(f, "except") EXCEPT
                                    !.attempts = i, !.out = Raise(o.exc)]]
                /\ wake' = wake
           ELSE /\ frame' = [frame EXCEPT ![th] =
                                [Goto(f, "backoff") EXCEPT !.attempts = i]]
                /\ wake' = [wake EXCEPT ![th] = now + RetryWait(i)]
        /\ UNCHANGED <<now, mem, disk, last_error, last_request_time,
                       last_from_cache, poolRest>>

\* the wait between two attempts is over
BackoffWake(th) ==
    LET f == frame[th]
    IN  /\ f.stage = "backoff"
        /\ now >= wake[th]
        /\ frame' = [frame EXCEPT ![th] = [Goto(f, "attempt") EXCEPT !.waits = @ + 1]]
        /\ UNCHANGED <<now, mem, disk, last_error, last_request_time,
                       last_from_cache, wake, poolRest>>

\* self._cache_set(cache, key, result)
StoreMemory(th) ==
    LET f == frame[th]
    IN  /\ f.stage = "store_mem"
        /\ mem' = _cache_set(CacheOf(f.key), f.key, f.out.val, now)
        /\ frame' = [frame EXCEPT ![th] = Goto(f, "store_disk")]
        /\ UNCHANGED <<now, disk, last_error, last_request_time,
                       last_from_cache, wake, poolRest>>

\* _disk_cache_set(key, ...); return result
StoreDisk(th) ==
    LET f == frame[th]
        w == _disk_cache_set(f.key, ToDisk(f.op, f.out.val), now)
    IN  /\ f.stage = "store_disk"
        /\ disk' = w.disk
        /\ frame' = [frame EXCEPT ![th] =
                        IF w.raised
                        THEN [Goto(f, "except") EXCEPT !.out = Raise(w.exc)]
                        ELSE Return(f, "live", Ok(f.out.val))]
        /\ UNCHANGED <<now, mem, last_error, last_request_time,
                       last_from_cache, wake, poolRest>>

\* except Exception as e: self._last_error = _user_facing_error(e, prefix)
\* (fetch_league_leaders only logs)
Except(th) ==
    LET f == frame[th]
    IN  /\ f.stage = "except"
        /\ last_error' = IF f.op = "fetch_league_leaders" THEN last_error
                         ELSE _user_facing_error(f.out.exc, ErrorPrefix(f.op))
        /\ frame' = [frame EXCEPT ![th] = Goto(f, "offline")]
        /\ UNCHANGED <<now, mem, disk, last_request_time, last_from_cache,
                       wake, poolRest>>

\* offline = _disk_cache_get_offline(key, CACHE_TTL_OFFLINE) and the return
\* that follows it: the record when it is of the fetch's kind (and, for the
\* standings, holds a conference), the empty result otherwise
OfflineRead(th) ==
    LET f == frame[th]
        offline == _disk_cache_get_offline(f.key, CACHE_TTL_OFFLINE, now)
        found == IF offline.raised THEN PyNone ELSE FromDisk(f.op, offline.val)
        usable == found # PyNone /\ found # Tuple("None", "None")
        g == [f EXCEPT !.offl = @ + 1]
    IN  /\ f.stage = "offline"
        /\ last_from_cache' = IF usable THEN MarkFromCache(CacheOf(f.key), TRUE)
                              ELSE last_from_cache
        /\ frame' = [frame EXCEPT ![th] =
                        IF offline.raised THEN Return(g, "raised", offline)
                        ELSE IF usable THEN Return(g, "offline", Ok(found))
                        ELSE Return(g, "empty", Ok(EmptyResult(f)))]
        /\ UNCHANGED <<now, mem, disk, last_error, last_request_time, wake, poolRest>>

\* the threads asleep in time.sleep or in the wait between two attempts
Sleeping == {th \in Threads : frame[th].stage \in {"rl_sleep", "backoff"} /\ wake[th] > now}

\* time passes until the next sleep is over
PoolAdvance ==
    /\ Sleeping # {}
    /\ now' = CHOOSE t \in {wake[th] : th \in Sleeping} :
                  \A th \in Sleeping : t <= wake[th]
    /\ UNCHANGED <<mem, disk, last_error, last_request_time, last_from_cache,
                   wake, frame, poolRest>>

FetchStep(th) ==
    \/ MemoryCheck(th)
    \/ DiskCheck(th)
    \/ EnterTry(th)
    \/ RateLimitRead(th)
    \/ RateLimitWake(th)
    \/ RateLimitStamp(th)
    \/ Attempt(th)
    \/ BackoffWake(th)
    \/ StoreMemory(th)
    \/ StoreDisk(th)
    \/ Except(th)
    \/ OfflineRead(th)

NextPool == (\E th \in Threads : FetchStep(th)) \/ PoolAdvance

\* every fetch submitted has returned or raised
AllReturned == \A th \in Threads : frame[th].stage \in {"idle", "returned"}

\* the threads that are not given a fetch
Jobs(first) == [th \in Threads |-> IF th \in DOMAIN first THEN first[th] ELSE IdleFrame]

PoolDate == "d2"

\* the answers of the three endpoints during one refresh: each one answers, or
\* fails on every attempt; the scoreboard and the standings endpoints are not
\* both down
RefreshAnswers ==
    {a \in [games : {RemoteOk(0, Tuple(<<"g1">>, PoolDate)), RemoteFail(ReadTimeout)},
            standings : {RemoteOk(0, Tuple("rowsA", "rowsA")), RemoteFail(ReadTimeout)},
            leaders : {[PTS |-> x, REB |-> x, AST |-> x, TDBL |-> x] :
                          x \in {"ok", "fail"}}] :
        a.games.fails = 0 \/ a.standings.fails = 0}

\* the manual refresh: fetch_games, fetch_standings and fetch_league_leaders
\* submitted together
RefreshJobs ==
    {Jobs(<<Job("fetch_games", PoolDate, a.games),
            Job("fetch_standings", PoolDate, a.standings),
            Job("fetch_league_leaders", PoolDate, a.leaders)>>) : a \in RefreshAnswers}

\* two fetches of one key submitted together, the remote answering each of
\* them, with different data
TwinJobs ==
    {Jobs(<<Job("fetch_games", PoolDate, RemoteOk(0, Tuple(<<>>, PoolDate))),
            Job("fetch_games", PoolDate, RemoteOk(f, Tuple(<<"g1">>, PoolDate)))>>) :
        f \in RetriedFails}
    \cup {Jobs(<<Job("fetch_standings", PoolDate, RemoteOk(0, Tuple("rowsA", "empty"))),
                 Job("fetch_standings", PoolDate, RemoteOk(f, Tuple("rowsA", "rowsA")))>>) :
        f \in RetriedFails}

InitPool ==
    /\ InitState(NoFiles, Missing, "ok", "up", Budget(0, 0), [op |-> "none"])
    /\ frame \in RefreshJobs \cup TwinJobs

SpecPool == InitPool /\ [][NextPool]_vars

-----------------------------------------------------------------------------
(* fetch_games and fetch_standings called one after the other by one thread  *)
(* (the dashboard loop), followed statement by statement, on a machine whose *)
(* cache directory is empty or holds records of an earlier run, writable or  *)
(* not. The thread runs as long as it has a statement to execute, and every  *)
(* sleep comes to its end.                                                   *)

\* the next call of the loop: it starts when the one before it has returned
Submit ==
    /\ AllReturned
    /\ ncalls < MaxSoloCalls
    /\ \E job \in {Job("fetch_games", PoolDate, rem) : rem \in RemoteGames(PoolDate)}
                \cup {Job("fetch_standings", PoolDate, rem) : rem \in RemoteStandings} :
          frame' = [frame EXCEPT ![1] = job]
    /\ ncalls' = ncalls + 1
    /\ UNCHANGED <<now, mem, disk, config_file, fsMode, network, budget, last_error,
                   last_request_time, last_from_cache, ret, npauses, allFailed,
                   called, lastLive, reqAt, lastReq, startup, arg, res, pc, wake,
                   rlReturns>>

InitSolo ==
    \E files \in {NoFiles, WarmFiles(CACHE_TTL_GAMES), WarmFiles(CACHE_TTL_STANDINGS)} :
        \E mode \in {"ok", "nodir", "readonly"} :
            /\ InitState(files, Missing, mode, "up", Budget(0, 0), [op |-> "none"])
            /\ frame = NoJobs

NextSolo == Submit \/ NextPool

SpecSolo == InitSolo /\ [][NextSolo]_vars /\ WF_vars(NextPool)

-----------------------------------------------------------------------------
(* Properties *)

\* the step is a public call on key k
CallOn(k) == ncalls' = ncalls + 1 /\ ret'.key = k

GamesKeys == {GamesKey(d) : d \in Dates}

\* the value a well-formed disk record of key k stands for
StoredValue(k, data) ==
    IF k = "standings"
    THEN Tuple(IF data.east = <<>> THEN "None" ELSE data.east[1],
               IF data.west = <<>> THEN "None" ELSE data.west[1])
    ELSE Tuple(data.a, data.b)

\* the disk record of key k holds non-empty data of its kind
HoldsData(k) ==
    /\ disk[k].st = "obj"
    /\ IF k = "standings"
       THEN disk[k].data.ty = "standings"
            /\ (disk[k].data.east # <<>> \/ disk[k].data.west # <<>>)
       ELSE disk[k].data.ty = "list" /\ disk[k].data.a # <<>>

\* C1: every public fetch operation, for every remote outcome and every state
\* of the cache directory and of the key's cache file (missing, valid, not
\* JSON, a JSON list, directory that cannot be created), returns a value: no
\* exception reaches the caller.
C1_NoExceptionEscapes == ~ret.raised

\* C2 (as claimed): fetch_games(d) and fetch_standings(), called when the disk
\* record of the key holds non-empty fetched data whose age is at least the
\* short TTL and at most CACHE_TTL_OFFLINE, the memory cache has no live entry
\* and every remote attempt fails, return the data of the record and leave the
\* kind's last-from-cache flag true.
C2_OfflineFallbackAtCallTime ==
    [][\A k \in GamesKeys \cup {"standings"} :
        (/\ CallOn(k)
         /\ ret'.remote = "failed"
         /\ HoldsData(k)
         /\ now - disk[k].ts >= CacheTTL(CacheOf(k))
         /\ now - disk[k].ts <= CACHE_TTL_OFFLINE
         /\ ~Live(mem[k], now))
        => (/\ ~ret'.raised
            /\ ret'.val = StoredValue(k, disk[k].data)
            /\ last_from_cache'[CacheOf(k)])]_vars

\* C2 (amended): the same, the age of the record being at most
\* CACHE_TTL_OFFLINE when the call reads it back, that is after the rate-limit
\* wait and the backoff waits of the failed attempts.
C2_OfflineFallback ==
    [][\A k \in GamesKeys \cup {"standings"} :
        (/\ CallOn(k)
         /\ ret'.remote = "failed"
         /\ HoldsData(k)
         /\ now - disk[k].ts >= CacheTTL(CacheOf(k))
         /\ now' - disk[k].ts <= CACHE_TTL_OFFLINE
         /\ ~Live(mem[k], now))
        => (/\ ~ret'.raised
            /\ ret'.val = StoredValue(k, disk[k].data)
            /\ last_from_cache'[CacheOf(k)])]_vars

\* a failed fetch_standings answered from a record older than the short TTL
C2_Witness ==
    /\ ret.op = "fetch_standings"
    /\ ret.remote = "failed"
    /\ ret.origin = "offline"
    /\ ret.t0 - disk["standings"].ts >= CACHE_TTL_STANDINGS
    /\ ret.val = Tuple("rowsA", "None")

\* C3: fetch_league_leaders(), when every league-leader remote call fails after
\* its retries and the 'league_leaders' record holds leaders, is older than
\* the short TTL and within CACHE_TTL_OFFLINE, returns the category lists of
\* the record and sets _last_leaders_from_cache, rather than empty lists.
C3_LeadersOfflineFallback ==
    [][(/\ CallOn("league_leaders")
        /\ ret'.remote = "failed"
        /\ disk["league_leaders"].st = "obj"
        /\ disk["league_leaders"].data.PTS # <<>>
        /\ now - disk["league_leaders"].ts >= CACHE_TTL_LEAGUE_LEADERS
        /\ now' - disk["league_leaders"].ts <= CACHE_TTL_OFFLINE)
       => (/\ ret'.val.PTS = disk["league_leaders"].data.PTS
           /\ last_from_cache'.leaders)]_vars

\* C4: with every remote call failing and no disk record at the start,
\* fetch_games returns ([], d), fetch_standings (None, None) and
\* fetch_league_leaders four empty lists, in any order of the calls; once the
\* three have been called get_last_error() is a non-empty message.
C4_TotalFailure ==
    allFailed =>
        /\ ret.op = "fetch_games" =>
              \E d \in Dates : ret.key = GamesKey(d) /\ ret.val = Tuple(<<>>, d)
        /\ ret.op = "fetch_standings" => ret.val = Tuple("None", "None")
        /\ ret.op = "fetch_league_leaders" =>
              /\ ret.val.ty = "leaders"
              /\ ret.val.PTS = <<>> /\ ret.val.REB = <<>>
              /\ ret.val.AST = <<>> /\ ret.val.TDBL = <<>>
        /\ called = {"fetch_games", "fetch_standings", "fetch_league_leaders"} =>
              /\ last_error.ty = "str"
              /\ last_error.text # ""

\* the three operations have been called, fetch_league_leaders last
C4_Witness ==
    /\ allFailed
    /\ ncalls = 3
    /\ called = {"fetch_games", "fetch_standings", "fetch_league_leaders"}
    /\ ret.op = "fetch_league_leaders"
    /\ ret.reqs = 10

\* C5: a call of fetch_games, fetch_standings or fetch_league_leaders in which
\* every remote call failed leaves the memory-cache entry and the disk record
\* of its key as they were.
C5_NoWriteOnFailure ==
    [][\A k \in Keys :
        (CallOn(k) /\ ret'.remote = "failed")
        => (mem'[k] = mem[k] /\ disk'[k] = disk[k])]_vars

C7_MemoryHit ==
    [][\A d \in Dates :
        (/\ CallOn(GamesKey(d))
         /\ lastLive[GamesKey(d)].has
         /\ now < lastLive[GamesKey(d)].t + CACHE_TTL_GAMES)
        => (/\ ret'.val = lastLive[GamesKey(d)].val
            /\ ret'.rl = 0
            /\ ret'.reqs = 0
            /\ UNCHANGED <<last_error, last_from_cache, mem, disk,
                           last_request_time, now>>)]_vars

\* a fetch_games answered from memory a moment after the live fetch
C7_Witness ==
    /\ ret.op = "fetch_games"
    /\ ret.origin = "memory"
    /\ ret.t0 > lastLive[ret.key].t
    /\ ret.val.a # <<>>

\* C8: a call of fetch_games, fetch_standings or fetch_league_leaders that
\* takes the network path clears last_error before its remote call, and when
\* every remote call of it fails it returns with last_error set to a non-empty
\* message.
C8_ErrorSetOnFailure ==
    (ret.rl > 0 /\ ret.remote = "failed" /\ ~ret.raised) => last_error # PyNone

\* C9: after a call of fetch_games, fetch_standings or fetch_league_leaders
\* returns, the kind's last-from-cache flag is true if and only if the value
\* returned was read from the offline disk tier.
C9_FlagIffOffline ==
    (ret.op # "none" /\ ~ret.raised) =>
        (last_from_cache[CacheOf(ret.key)] <=> ret.origin = "offline")

\* C10: when several threads call _rate_limit concurrently, no two calls
\* return less than RATE_LIMIT_MIN_INTERVAL apart.
C10_Serialized ==
    \A i, j \in 1..Len(rlReturns) :
        i < j => rlReturns[j] - rlReturns[i] >= RATE_LIMIT_MIN_INTERVAL

\* C11: in a single-threaded run any two consecutive remote requests, of one
\* operation or of two, are at least RATE_LIMIT_MIN_INTERVAL apart.
C11_RequestsSpaced ==
    LET sent == <<lastReq>> \o reqAt
    IN  \A i \in 1..(Len(sent) - 1) :
            sent[i + 1] - sent[i] >= RATE_LIMIT_MIN_INTERVAL

\* C12: when _rate_limit is called again and again, one call after the other,
\* two consecutive calls return at least RATE_LIMIT_MIN_INTERVAL apart, and a
\* call made when that interval has elapsed since the last return does not
\* sleep.
C12_SequentialSpacing ==
    /\ [](\A i \in 1..(Len(rlReturns) - 1) :
            rlReturns[i + 1] - rlReturns[i] >= RATE_LIMIT_MIN_INTERVAL)
    /\ [][\A th \in Threads :
            (/\ pc[th] = "idle" /\ pc'[th] # "idle"
             /\ now - last_request_time >= RATE_LIMIT_MIN_INTERVAL)
            => (pc'[th] = "stamp" /\ wake'[th] = wake[th])]_vars

\* a second call that slept out the interval, and one that found it elapsed
C12_Witness ==
    /\ Len(rlReturns) = 2
    /\ rlReturns[2] - rlReturns[1] = RATE_LIMIT_MIN_INTERVAL
    /\ \E th \in Threads : pc[th] = "done" /\ wake[th] = rlReturns[2]

\* C13: _with_retry(op) calls an op that fails on every attempt exactly 3
\* times and raises the exception of the last attempt; it calls an op that
\* first succeeds on attempt k <= 3 exactly k times and returns the value of
\* that attempt; every exception type is retried.
C13_RetryPolicy ==
    arg.op = "_with_retry" =>
        /\ (\A i \in 1..StopAfterAttempt : arg.outs[i].raised) =>
              /\ res.attempts = 3
              /\ res.raised
              /\ res.exc = arg.outs[3].exc
        /\ \A k \in 1..StopAfterAttempt :
              (~arg.outs[k].raised /\ \A j \in 1..(k - 1) : arg.outs[j].raised) =>
                  /\ res.attempts = k
                  /\ ~res.raised
                  /\ res.val = arg.outs[k].val

\* three failed attempts with different exceptions
C13_Witness ==
    /\ arg.op = "_with_retry"
    /\ arg.outs = <<Raise(ReadTimeout), Raise(ReadTimeout), Raise(KeyErr)>>
    /\ res.raised /\ res.exc = KeyErr

\* C14: every public fetch operation that sends a remote request has called
\* the rate limiter first, in the same call, and sends the request under the
\* 3-attempt retry policy: a request that fails is repeated until the third
\* attempt.
C14_RateLimitedAndRetried ==
    reqAt # <<>> =>
        /\ ret.rl >= 1
        /\ ret.remote = "failed" => ret.reqs >= StopAfterAttempt

\* the step is a call of get_initial_data_from_cache_only
ColdCall ==
    ncalls' = ncalls + 1 /\ ret'.op = "get_initial_data_from_cache_only"

\* the three records the cold start of date key k reads exist and are within
\* the offline window
ColdRecordsInWindow(k) ==
    \A x \in {k, "standings", "league_leaders"} :
        disk[x].st = "obj" /\ now - disk[x].ts <= CACHE_TTL_OFFLINE

ColdFrame ==
    /\ ret'.rl = 0
    /\ reqAt' = <<>>
    /\ UNCHANGED <<last_error, last_from_cache, mem, disk, last_request_time, now>>

ColdResultNonEmpty ==
    /\ ~ret'.raised
    /\ ret'.val.games # <<>>
    /\ ret'.val.east # "None" \/ ret'.val.west # "None"
    /\ ret'.val.leaders.PTS # <<>>

\* C15 (as claimed): get_initial_data_from_cache_only(d) calls neither the
\* rate limiter nor a remote endpoint and leaves last_error, the flags, the
\* memory caches and the disk records unchanged; when the three records exist
\* within the offline window it returns non-empty games, standings and leaders.
C15_ColdStartAnyRecords ==
    [][\A k \in GamesKeys :
        (ColdCall /\ ret'.key = k)
        => (ColdFrame /\ (ColdRecordsInWindow(k) => ColdResultNonEmpty))]_vars

\* C15 (amended): the same, the result being non-empty when the three records
\* are within the offline window and each of them holds non-empty data.
C15_ColdStart ==
    [][\A k \in GamesKeys :
        (ColdCall /\ ret'.key = k)
        => (/\ ColdFrame
            /\ (/\ ColdRecordsInWindow(k)
                /\ HoldsData(k) /\ HoldsData("standings")
                /\ disk["league_leaders"].data.PTS # <<>>)
               => ColdResultNonEmpty)]_vars

\* a cold start that found the three records, a day old, and returned rows
C15_Witness ==
    /\ ret.op = "get_initial_data_from_cache_only"
    /\ ret.val.games = <<"g1">>
    /\ ret.val.east = "rowsA"
    /\ ret.val.leaders.PTS = LeaderRows
    /\ ret.t0 - disk["standings"].ts = CACHE_TTL_OFFLINE

C17_DamagedFileIsMiss ==
    (/\ arg.op \in {"_disk_cache_get", "_disk_cache_get_offline"}
     /\ disk[arg.key].st # "obj")
    => (~res.raised /\ res.val = PyNone)

\* C19: for a well-formed record with timestamp ts read at time now,
\* _disk_cache_get(key, ttl) returns the data if and only if now - ts < ttl
\* and _disk_cache_get_offline(key, max_age) if and only if
\* now - ts <= max_age; at an age equal to the bound the first misses and the
\* second hits.
C19_AgeBounds ==
    (arg.op # "none" /\ disk[arg.key].st = "obj") =>
        LET age == now - disk[arg.key].ts
            hit == ~res.raised /\ res.val = disk[arg.key].data
            miss == ~res.raised /\ res.val = PyNone
        IN  /\ hit \/ miss
            /\ arg.op = "_disk_cache_get" => (hit <=> age < arg.window)
            /\ arg.op = "_disk_cache_get_offline" => (hit <=> age <= arg.window)

\* the offline read of a record exactly one hour old, with a window of one hour
C19_Witness ==
    /\ arg.op = "_disk_cache_get_offline"
    /\ arg.window = CACHE_TTL_STANDINGS
    /\ disk[arg.key].st = "obj"
    /\ now - disk[arg.key].ts = arg.window
    /\ res.val = StoredStandings

\* C18: when the remote fetch of fetch_games, fetch_standings or
\* fetch_league_leaders has succeeded and the disk-cache write then fails
\* (the cache directory cannot be created, the file cannot be opened), the
\* call still returns the live result, get_last_error() stays None and no
\* exception reaches the caller.
C18_WriteFailureSwallowed ==
    (ret.remote = "ok" /\ fsMode # "ok") =>
        /\ ~ret.raised
        /\ ret.origin = "live"
        /\ last_error = PyNone

\* C20: in each of the four memory caches a value stored under key k at time
\* t is returned by every lookup of k made before t + ttl and is absent for
\* every lookup made at or after t + ttl (the caches never hold more keys
\* than their capacity).
C20_MemoryTTL ==
    [][\A k \in CacheKeys :
        (/\ arg'.op = "_cache_get" /\ arg'.key = k
         /\ <<arg, res>>' # <<arg, res>>
         /\ lastLive[k].has)
        => IF now < lastLive[k].t + CacheTTL(CacheOf(k))
           THEN res'.val = lastLive[k].val
           ELSE res'.val = PyNone]_vars

\* a box score looked up exactly 300 s after it was stored
C20_Witness ==
    /\ arg.op = "_cache_get"
    /\ arg.key = BoxKey("g1")
    /\ lastLive[arg.key].has
    /\ now = lastLive[arg.key].t + CACHE_TTL_BOX_SCORE
    /\ res.val = PyNone

\* the last call was fetch_head_to_head(LAL, BOS) and asked for a log
H2HAsked == ret.op = "fetch_head_to_head" /\ ret.reqs >= 1

\* C21: fetch_head_to_head returns the neutral structure whenever either
\* team's log fetch fails or the teams share no games; when A's log is fetched
\* and B's fetch fails, nothing of A's log is in the result.
C21_NeutralOnFailure ==
    (/\ ret.op = "fetch_head_to_head"
     /\ ret.remote = "failed" \/ ret.reqs = 0 \/ Shared(arg.season) = {})
    => ret.val = NeutralHeadToHead

\* C22: when both logs are fetched and agree on every shared game,
\* wins_a + wins_b is the number of games of season_series; in every case
\* wins_a is at most that number.
C22_WinsAddUp ==
    ret.op = "fetch_head_to_head" =>
        LET ss == ret.val.season_series
        IN  /\ ss.wins_a <= Len(ss.games)
            /\ (ret.reqs = 2 /\ ret.remote = "ok" /\ Consistent(arg))
                    => ss.wins_a + ss.wins_b = Len(ss.games)

\* both logs fetched, consistent, three shared games, wins on both sides
C22_Witness ==
    /\ ret.op = "fetch_head_to_head"
    /\ ret.reqs = 2 /\ ret.remote = "ok" /\ Consistent(arg)
    /\ Len(ret.val.season_series.games) = 3
    /\ ret.val.season_series.wins_a = 2
    /\ ret.val.season_series.wins_b = 1

\* C23: when both logs are fetched and the teams share a game, last_meeting
\* is the chronologically most recent game of A against B, with A's points of
\* that game and the points of B's entry for the same date.
C23_LastMeeting ==
    (H2HAsked /\ ret.reqs = 2 /\ ret.remote = "ok" /\ Shared(arg.season) # {})
    => LET last == LastShared(arg.season)
           lm == ret.val.last_meeting
       IN  /\ lm # PyNone
           /\ lm.date = DateText(SeasonDates[last], arg.fmt)
           /\ lm.pts_a = PointsOf(last, arg.season[last].wl)
           /\ (\E k \in 1..Len(ServiceLogB(arg)) :
                    ServiceLogB(arg)[k].GAME_DATE = lm.date)
                => lm.pts_b = PointsOf(last, OtherWL(arg.season[last].wl))

\* the last call of build_quarter_scores gave a table
QuartersBuilt == res.op = "build_quarter_scores" /\ res.val # PyNone

\* the entries of both teams
AllPeriods == PeriodsOf(arg.away) \o PeriodsOf(arg.home)

\* the period numbers above 4 that the input names
Overtime == {k \in PeriodNums(AllPeriods) : k > 4}

\* the sum of the scores of all entries of a list
RECURSIVE SumEntries(_)
SumEntries(periods) ==
    IF periods = <<>> THEN 0 ELSE ScoreOf(periods[1]) + SumEntries(Tail(periods))

\* no two entries of the list have the same period number
DistinctNums(periods) ==
    \A i, j \in 1..Len(periods) : NumOf(periods[i]) = NumOf(periods[j]) => i = j

\* C24: the OT column is present exactly when some input period has a number
\* greater than 4; for each team it holds the sum of the team's scores over
\* the periods numbered greater than 4; periods 1 to 4 are shown in Q1..Q4.
C24_OvertimeColumn ==
    QuartersBuilt =>
        LET out == res.val
            hasOT == \E i \in 1..Len(out.headers) : out.headers[i] = "OT"
        IN  /\ hasOT <=> Overtime # {}
            /\ hasOT =>
                  /\ out.away[5] = SumSlots(PeriodsOf(arg.away), Overtime)
                  /\ out.home[5] = SumSlots(PeriodsOf(arg.home), Overtime)
            /\ \A i \in 1..4 :
                  /\ out.away[i] = Slot(PeriodsOf(arg.away), i)
                  /\ out.home[i] = Slot(PeriodsOf(arg.home), i)

\* C25 (as claimed): when a team's score is absent its Total cell is the sum
\* of all period scores given for the team; when present, Total equals it.
C25_TotalAnyPeriods ==
    QuartersBuilt =>
        LET out == res.val
        IN  /\ arg.away.score = PyNone
                => out.away[Len(out.away)] = SumEntries(PeriodsOf(arg.away))
            /\ arg.home.score = PyNone
                => out.home[Len(out.home)] = SumEntries(PeriodsOf(arg.home))
            /\ arg.away.score # PyNone => out.away[Len(out.away)] = arg.away.score.v
            /\ arg.home.score # PyNone => out.home[Len(out.home)] = arg.home.score.v

\* C25 (amended): when a team's score is absent and no two entries of its
\* period list have the same period number, its Total cell is the sum of all
\* period scores given for the team (of repeated numbers only the last entry
\* counts); when the score is present, Total equals it unchanged.
C25_Total ==
    QuartersBuilt =>
        LET out == res.val
        IN  /\ (arg.away.score = PyNone /\ DistinctNums(PeriodsOf(arg.away)))
                => out.away[Len(out.away)] = SumEntries(PeriodsOf(arg.away))
            /\ (arg.home.score = PyNone /\ DistinctNums(PeriodsOf(arg.home)))
                => out.home[Len(out.home)] = SumEntries(PeriodsOf(arg.home))
            /\ arg.away.score # PyNone => out.away[Len(out.away)] = arg.away.score.v
            /\ arg.home.score # PyNone => out.home[Len(out.home)] = arg.home.score.v

\* away without score, a first quarter of 10 and a second overtime of 7;
\* home with its score given
C25_Witness ==
    /\ QuartersBuilt
    /\ arg.away = Team(PyList(<<Period(PyInt(1), PyInt(10)),
                                Period(PyInt(6), PyInt(7))>>), PyNone)
    /\ arg.home.score = PyInt(47)
    /\ res.val.away = <<10, 0, 0, 0, 7, 17>>
    /\ res.val.home[Len(res.val.home)] = 47

\* C26: build_quarter_scores returns None exactly when both period lists are
\* empty or missing; otherwise headers is Q1..Q4, optionally OT, then Total,
\* both rows are as long as headers, and a regulation period without entry is
\* shown as 0 (away [(1,25),(2,22)] with total 47 gives [25,22,0,0,47]).
C26_TableShape ==
    res.op = "build_quarter_scores" =>
        LET out == res.val
            Unplayed(team, i) ==
                \A k \in 1..Len(PeriodsOf(team)) : NumOf(PeriodsOf(team)[k]) # i
        IN  /\ out = PyNone <=> AllPeriods = <<>>
            /\ out # PyNone =>
                  /\ out.headers \in {<<"Q1", "Q2", "Q3", "Q4", "Total">>,
                                       <<"Q1", "Q2", "Q3", "Q4", "OT", "Total">>}
                  /\ Len(out.away) = Len(out.headers)
                  /\ Len(out.home) = Len(out.headers)
                  /\ \A i \in 1..4 :
                        /\ Unplayed(arg.away, i) => out.away[i] = 0
                        /\ Unplayed(arg.home, i) => out.home[i] = 0
            /\ (arg.away = TestAway /\ arg.home = TestHome) =>
                  out = [ty |-> "dict",
                         headers |-> <<"Q1", "Q2", "Q3", "Q4", "Total">>,
                         away |-> <<25, 22, 0, 0, 47>>,
                         home |-> <<20, 28, 0, 0, 48>>]

\* the table of the two teams of the example
C26_Witness ==
    /\ QuartersBuilt
    /\ arg.away = TestAway /\ arg.home = TestHome
    /\ res.val.away = <<25, 22, 0, 0, 47>>

\* the categories a text names, by their keywords
NamesTimeout(text) ==
    Contains(Lower(text), kw_timeout) \/ Contains(Lower(text), kw_timed_out)
NamesConnectivity(text) ==
    \/ Contains(Lower(text), kw_connection)
    \/ Contains(Lower(text), kw_network)
    \/ Contains(Lower(text), kw_unreachable)
NamesRateLimit(text) ==
    \/ Contains(Lower(text), kw_rate)
    \/ Contains(text, kw_429)
    \/ Contains(Lower(text), kw_too_many)
NamesNotFound(text) ==
    Contains(text, kw_404) \/ Contains(Lower(text), kw_not_found)

\* the result is the one of the first category text names, in the order
\* timeout, connectivity, rate-limited, not-found, generic
ClassifiedBy(text, result) ==
    IF NamesTimeout(text)
    THEN result = Str("Connection timeout. Try again later.", <<>>)
    ELSE IF NamesConnectivity(text)
    THEN result = Str("No connection. Check your network.", <<>>)
    ELSE IF NamesRateLimit(text)
    THEN result = Str("Too many requests. Wait a moment and retry.", <<>>)
    ELSE IF NamesNotFound(text)
    THEN result = Str("Data not found.", <<>>)
    ELSE result.text = arg.prefix \o ": "

\* C27 (as claimed): _user_facing_error classifies by the text of the failure
\* message only, never by the exception type, testing timeout, connectivity,
\* rate-limited, not-found, generic in this order; the first category whose
\* keyword occurs in the message decides.
C27_ByMessageOnly ==
    res.op = "_user_facing_error" => ClassifiedBy(Strip(arg.exc.msg), res.val)

\* C27 (amended): _user_facing_error classifies by the text of the failure
\* message, or by the name of the exception type when the message is empty
\* or blank, testing timeout, connectivity, rate-limited, not-found, generic
\* in this order; the first category whose keyword occurs in that text
\* decides, so "Connection timed out" yields timeout.
C27_ByMessageText ==
    res.op = "_user_facing_error" =>
        ClassifiedBy(IF Strip(arg.exc.msg) # <<>> THEN Strip(arg.exc.msg)
                     ELSE TypeNameChars(arg.exc.type),
                     res.val)

\* "Connection timed out", which names connectivity and timeout, is a timeout
C27_Witness ==
    /\ res.op = "_user_facing_error"
    /\ arg.exc.msg = <<"C","o","n","n","e","c","t","i","o","n"," ","t","i","m","e","d"," ","o","u","t">>
    /\ res.val = Str("Connection timeout. Try again later.", <<>>)

\* C28: for every game index i with 0 <= i < min(20, game_count) the key that
\* game_index_label(i) prints makes get_action return 'game:i'.
C28_LabelKeyOpensGame ==
    res.op = "press_label" => res.val = GameAction(arg.i)

\* C29: whenever get_action(key, game_count) returns 'game:i', 0 <= i <
\* game_count and i <= 19; key -1 yields None for every game_count, and a
\* digit key whose index is not below game_count yields None.
C29_GameIndexInRange ==
    res.op = "get_action" =>
        /\ IsGameAction(res.val) =>
              /\ 0 <= GameIndexOf(res.val)
              /\ GameIndexOf(res.val) < arg.game_count
              /\ GameIndexOf(res.val) <= 19
        /\ arg.key = -1 => res.val = PyNone
        /\ (ord("1") <= arg.key /\ arg.key <= ord("9")
                /\ arg.key - ord("1") >= arg.game_count) => res.val = PyNone
        /\ (arg.key = ord("0") /\ 9 >= arg.game_count) => res.val = PyNone

\* key j with twenty games opens game 19
C29_Witness ==
    /\ res.op = "get_action"
    /\ arg.key = ord("j") /\ arg.game_count = 20
    /\ res.val = GameAction(19)
    /\ GameIndexOf(res.val) = 19

\* what the claim says of one game
SaidFinal(g) == g.gameStatusText \in {"Final", "Final/OT"}
SaidInProgress(g) ==
    /\ ~SaidFinal(g)
    /\ (g.awayTeam.score # PyNone /\ g.awayTeam.score.v # 0)
          \/ (g.homeTeam.score # PyNone /\ g.homeTeam.score.v # 0)
SaidNotStarted(g) == ~SaidFinal(g) /\ ~SaidInProgress(g)

\* C30: categorize_games partitions its input: every game is in exactly one
\* of the three lists and keeps its relative order; a game with status Final
\* or Final/OT is final whatever its score, and any other game is in progress
\* exactly when its away or home score is non-zero.
C30_Partition ==
    res.op = "categorize_games" =>
        /\ res.val.finalizados = SelectSeq(arg.games, SaidFinal)
        /\ res.val.em_andamento = SelectSeq(arg.games, SaidInProgress)
        /\ res.val.nao_comecaram = SelectSeq(arg.games, SaidNotStarted)
        /\ Len(res.val.finalizados) + Len(res.val.em_andamento)
              + Len(res.val.nao_comecaram) = Len(arg.games)

\* a final game with a score between two different games in progress
C30_Witness ==
    /\ res.op = "categorize_games"
    /\ arg.games = <<Game("Q3", PyInt(75), PyInt(0)),
                     Game("Final", PyInt(0), PyInt(70)),
                     Game("Q3", PyInt(0), PyInt(70))>>
    /\ res.val.em_andamento = <<arg.games[1], arg.games[3]>>
    /\ res.val.finalizados = <<arg.games[2]>>


\* a call of save_config that returned
Saved == res.op = "save_config" /\ ~res.raised

\* data is what AppConfig dumps: the nine fields, each one valid
IsAppConfigDump(data) ==
    /\ \A k \in ConfigFields : data[k] \notin {Absent, Invalid}
    /\ data[ExtraKey] = Absent
    /\ model_validate_dump(data) = Ok(data)

\* C31: after save_config(c) returns, the configuration file holds a valid
\* AppConfig dump, and a dict c that fails the validation is not what the
\* file holds
C31_OnlyValidPersisted ==
    Saved =>
        /\ config_file.st = "json"
        /\ IsAppConfigDump(config_file.data)
        /\ model_validate_dump(res.config).raised => config_file # JsonFile(res.config)


\* the three fetches of a refresh are what the pool runs
IsRefresh == frame[1].op = "fetch_games" /\ frame[2].op = "fetch_standings"

\* the fetch of frame f went to the remote and every remote call it made raised
FailedOnNetwork(f) ==
    /\ f.op # "none"
    /\ f.attempts > 0
    /\ IF f.op = "fetch_league_leaders"
       THEN \A c \in {"PTS", "REB", "AST", "TDBL"} : f.rem[c] = "fail"
       ELSE f.rem.fails = StopAfterAttempt

\* C32: when the three fetches of a refresh run concurrently and at least one
\* of them fails on the network path, get_last_error() is a message once all
\* three have returned
C32_ErrorAfterConcurrentFailure ==
    (/\ IsRefresh
     /\ AllReturned
     /\ \E th \in Threads : FailedOnNetwork(frame[th]))
    => last_error # PyNone

\* two fetches of one key are what the pool runs
IsTwin == frame[1].op = frame[2].op

\* the memory entry and the disk record of the key hold what the remote
\* answered to the fetch of frame f
BothTiersHold(f) ==
    /\ mem[f.key].has
    /\ mem[f.key].val = f.out.val
    /\ disk[f.key].st = "obj"
    /\ disk[f.key].data = JsonDump(ToDisk(f.op, f.out.val))

\* C33: when two fetches of one key, each with a successful remote call, have
\* run concurrently and returned, the memory entry and the disk record of the
\* key hold the result of one and the same remote call
C33_TiersAgree ==
    (/\ IsTwin
     /\ AllReturned
     /\ \A th \in {1, 2} : frame[th].origin = "live")
    => \E th \in {1, 2} : BothTiersHold(frame[th])


\* the disk record of key k is one the short-TTL read of time t answers with
DiskLive(k, t) ==
    ~_disk_cache_get(k, CacheTTL(CacheOf(k)), t).raised
    /\ _disk_cache_get(k, CacheTTL(CacheOf(k)), t).val # PyNone

\* C34: fetch_standings and fetch_league_leaders called while the memory
\* cache and the disk cache both hold an unexpired entry of the key return the
\* value of the memory cache, not what the disk record holds
C34_MemoryBeforeDisk ==
    [][\A k \in {"standings", "league_leaders"} :
        (/\ CallOn(k)
         /\ Live(mem[k], now)
         /\ DiskLive(k, now))
        => (/\ ret'.origin = "memory"
            /\ ret'.val = mem[k].val)]_vars


\* the fetch of thread th has been called and has not returned
Running(th) == frame[th].stage \notin {"idle", "returned"}

\* the fetch of frame f is in no part it has left before, and has made at most
\* one rate-limit call, StopAfterAttempt remote attempts, one wait less than
\* attempts, and one offline read
OneTraversal(f) ==
    /\ Phase(f.stage) \notin f.seen
    /\ f.rl <= 1
    /\ f.attempts <= StopAfterAttempt
    /\ f.waits <= StopAfterAttempt - 1
    /\ f.offl <= 1
    /\ f.attempts >= 1 => f.rl = 1
    /\ (f.stage = "returned" /\ f.attempts >= 1) => f.waits = f.attempts - 1

\* C35: every call of fetch_games or fetch_standings returns, after one pass
\* through its parts: at most one rate-limit wait, at most 3 remote attempts
\* separated by at most 2 backoff waits, at most one offline disk read, and
\* no part entered again once it has been left
C35_Terminates ==
    /\ [](\A th \in Threads : frame[th].op # "none" => OneTraversal(frame[th]))
    /\ \A th \in Threads : Running(th) ~> frame[th].stage = "returned"

\* a fetch_standings that was refused three times and fell back on the record
\* of an earlier run
C35_Witness ==
    /\ frame[1].op = "fetch_standings"
    /\ frame[1].stage = "returned"
    /\ frame[1].origin = "offline"
    /\ frame[1].attempts = 3
    /\ frame[1].waits = 2
    /\ frame[1].offl = 1

\* C36: on the network path fetch_games and fetch_standings call _rate_limit
\* exactly once, before the first remote attempt; the attempts that follow a
\* failed one come after the backoff wait alone, and neither the attempts nor
\* the waits change _last_request_time
C36_RateLimitOnce ==
    /\ [](\A th \in Threads :
            (frame[th].op # "none"
             /\ (frame[th].stage = "attempt" \/ frame[th].attempts >= 1))
            => frame[th].rl = 1)
    /\ [][\A th \in Threads :
            (frame[th].op # "none" /\ frame[th].stage \in {"attempt", "backoff"})
            => /\ last_request_time' = last_request_time
               /\ frame'[th].rl = frame[th].rl
               /\ (frame[th].stage = "attempt" /\ frame'[th].stage = "backoff")
                    => wake'[th] = now + RetryWait(frame'[th].attempts)
               /\ (frame[th].stage = "backoff" /\ frame'[th].stage # "backoff")
                    => frame'[th].stage = "attempt"]_vars

\* a fetch_games that was answered on its third attempt: the time stored by
\* the rate limiter is that of the first attempt, two waits ago
C36_Witness ==
    /\ frame[1].op = "fetch_games"
    /\ frame[1].stage = "returned"
    /\ frame[1].origin = "live"
    /\ frame[1].attempts = 3
    /\ frame[1].rl = 1
    /\ now - last_request_time = SumWaits(2)


\* C37: in _with_retry the wait before attempt 2 is 1 s (10 ticks) and the
\* wait before attempt 3 is 2 s, so that the second attempt is made 1 s and the
\* third 3 s after the first; no wait follows the third attempt, whose
\* exception is raised at once, and no wait exceeds 10 s
C37_BackoffWaits ==
    arg.op = "_with_retry" =>
        /\ res.attempts = 1 => res.t = arg.t
        /\ res.attempts = 2 => res.t = arg.t + 10
        /\ res.attempts = 3 => res.t = arg.t + 30
        /\ (\A i \in 1..StopAfterAttempt : arg.outs[i].raised) =>
              (res.raised /\ res.t = arg.t + 30)
        /\ \A n \in 1..(StopAfterAttempt - 1) : RetryWait(n) <= 100

\* an operation that fails three times: its error is raised 3 s after the
\* first attempt
C37_Witness ==
    /\ arg.op = "_with_retry"
    /\ \A i \in 1..StopAfterAttempt : arg.outs[i] = Raise(ReadTimeout)
    /\ res.raised
    /\ res.attempts = 3
    /\ res.t - arg.t = 30

\* the result is of the generic category: the prefix, ': ' and a body
IsGeneric(result) == result # PyNone /\ result.text = arg.prefix \o ": "

\* body is message when it has at most 60 characters, and else its first 57
\* characters followed by '...'
BodyOf(message, body) ==
    /\ Len(body) <= 60
    /\ Len(message) <= 60 => body = message
    /\ Len(message) > 60 => body = SubSeq(message, 1, 57) \o <<".", ".", ".">>

\* C38: for an error of the generic category _user_facing_error returns
\* prefix + ': ' + body where body has at most 60 characters: the whole
\* message of the exception when that has at most 60 characters, and else
\* the first 57 characters of the message followed by '...'.
C38_BodyOfMessage ==
    (res.op = "_user_facing_error" /\ IsGeneric(res.val))
        => BodyOf(arg.exc.msg, res.val.body)

\* C38 (amended): for an error of the generic category _user_facing_error
\* returns prefix + ': ' + body where body has at most 60 characters; with
\* text the message stripped of surrounding blanks, or the name of the
\* exception's type when nothing is left, body is text when text has at
\* most 60 characters, and else the first 57 characters of text followed by
\* '...'.
C38_BodyOfText ==
    (res.op = "_user_facing_error" /\ IsGeneric(res.val))
        => BodyOf(IF Strip(arg.exc.msg) # <<>> THEN Strip(arg.exc.msg)
                  ELSE TypeNameChars(arg.exc.type),
                  res.val.body)

\* a generic message of 61 characters comes back as 57 of them and '...'
C38_Witness ==
    /\ res.op = "_user_facing_error"
    /\ arg.exc.msg = Repeat("x", 61)
    /\ IsGeneric(res.val)
    /\ res.val.body = Repeat("x", 57) \o <<".", ".", ".">>

\* the step is a call of get_box_score
BoxCall == ncalls' = ncalls + 1 /\ ret'.op = "get_box_score"

\* the last call was a get_box_score of this key whose request failed
BoxFailed(k) == ret.op = "get_box_score" /\ ret.key = k /\ ret.remote = "failed"

\* a get_box_score of this key succeeded less than CACHE_TTL_BOX_SCORE ago
BoxFresh(k) == lastLive[k].has /\ now - lastLive[k].t < CACHE_TTL_BOX_SCORE

\* C39: a failed get_box_score(id) returns None and inserts nothing into the
\* box-score cache, so the next call for the same id sends a request again; a
\* successful one stores its result, and the calls for that id within the
\* next 300 s return it from memory without a remote request; a None or
\* empty id returns None without touching the cache or the network.
C39_BoxScoreCache ==
    [][BoxCall =>
         /\ ret'.remote = "failed" => ret'.val = PyNone /\ mem' = mem
         /\ (ret'.key # "" /\ BoxFailed(ret'.key)) => Len(reqAt') = 1
         /\ ret'.remote = "ok" =>
               /\ mem'[ret'.key].has /\ mem'[ret'.key].val = ret'.val
               /\ mem'[ret'.key].exp = now' + CACHE_TTL_BOX_SCORE
         /\ (ret'.key # "" /\ BoxFresh(ret'.key)) =>
               /\ ret'.origin = "memory"
               /\ ret'.val = lastLive[ret'.key].val
               /\ reqAt' = <<>> /\ mem' = mem
         /\ ret'.key = "" => ret'.val = PyNone /\ mem' = mem /\ reqAt' = <<>>
    ]_vars

\* a box score fetched one tick less than 300 s ago is served from memory
C39_Witness ==
    /\ ret.op = "get_box_score"
    /\ ret.origin = "memory"
    /\ ret.reqs = 0
    /\ lastLive[ret.key].has
    /\ now - lastLive[ret.key].t = CACHE_TTL_BOX_SCORE - 1

====
